---- MODULE Spec2Model ----
(***************************************************************************)
(* The scoring library of FashionBench (scoring/metrics.py).               *)
(*                                                                         *)
(* A Python str is a sequence of one-character strings, a list is a        *)
(* sequence of such strings, a dict is a function from names to values.    *)
(* Every Python value is wrapped in a record [t, v] so that None, str,     *)
(* list and dict can share a variable.  Scores are exact rationals <<n,d>> *)
(* in lowest terms; a call returns [exc, val], exc being the exception     *)
(* that escaped the call ("none" when it returned).  Characters are ASCII: *)
(* lower, strip and \w are those of str on ASCII text.                     *)
(***************************************************************************)
EXTENDS Integers, Sequences, FiniteSets, TLC

\* ---------------------------------------------------------------- bounds
MaxLen == 2        \* longest generated string
MaxItems == 2      \* longest generated list
MaxWeight == 3     \* largest weight in a weights mapping
MaxResults == 2    \* longest generated list of result records

\* ------------------------------------------------------- Python values
Chars(s) == [i \in 1 .. Len(s) |-> SubSeq(s, i, i)]

None == [t |-> "none", v |-> <<>>]
PyStr(s) == [t |-> "str", v |-> s]
PyList(l) == [t |-> "list", v |-> l]
PyDict(d) == [t |-> "dict", v |-> d]

\* `not x` is true of None, "", [] and {}
Truthy(x) == x.t # "none" /\ DOMAIN x.v # {}

\* ------------------------------------------------------------ rationals
RECURSIVE GCD(_, _)
GCD(a, b) == IF b = 0 THEN a ELSE GCD(b, a % b)

Abs(n) == IF n < 0 THEN -n ELSE n

Rat(n, d) ==
    LET g == GCD(Abs(n), Abs(d))
        s == IF d < 0 THEN -1 ELSE 1
    IN  <<(s * n) \div g, (s * d) \div g>>

Zero == <<0, 1>>
One == <<1, 1>>
RAdd(a, b) == Rat(a[1] * b[2] + b[1] * a[2], a[2] * b[2])
RMul(a, b) == Rat(a[1] * b[1], a[2] * b[2])
RLe(a, b) == a[1] * b[2] <= b[1] * a[2]
RLt(a, b) == a[1] * b[2] < b[1] * a[2]
RMin(a, b) == IF RLe(a, b) THEN a ELSE b

\* the outcome of a call
Return(q) == [exc |-> "none", val |-> q]
Raise(e) == [exc |-> e, val |-> Zero]

\* a / b on floats: ZeroDivisionError when b is 0
TrueDiv(a, b) ==
    IF b[1] = 0 THEN Raise("ZeroDivisionError")
    ELSE Return(Rat(a[1] * b[2], a[2] * b[1]))

\* ------------------------------------------------------ str operations
Whitespace == {" ", "\t", "\n"}
UpperCase == Chars("ABCDEFGHIJKLMNOPQRSTUVWXYZ")
LowerCase == Chars("abcdefghijklmnopqrstuvwxyz")
Digits == Chars("0123456789")

\* the characters matched by \w
WordChars ==
    {UpperCase[i] : i \in 1 .. 26} \cup {LowerCase[i] : i \in 1 .. 26}
        \cup {Digits[i] : i \in 1 .. 10} \cup {"_"}

LowerChar(c) ==
    IF \E i \in 1 .. 26 : UpperCase[i] = c
    THEN LowerCase[CHOOSE i \in 1 .. 26 : UpperCase[i] = c]
    ELSE c

\* s.lower()
lower(s) == [i \in 1 .. Len(s) |-> LowerChar(s[i])]

\* s.strip()
strip(s) ==
    LET inner == {i \in 1 .. Len(s) : s[i] \notin Whitespace}
    IN  IF inner = {} THEN <<>>
        ELSE LET first == CHOOSE i \in inner : \A j \in inner : i <= j
                 last == CHOOSE i \in inner : \A j \in inner : j <= i
             IN  SubSeq(s, first, last)

\* a slip: the pattern is [\w-]+, a hyphen is part of a word
findall_words_HyphenInWord(s) ==
    LET W == WordChars \cup {"-"}
    IN  {SubSeq(s, p[1], p[2]) : p \in
            {p \in (1 .. Len(s)) \X (1 .. Len(s)) :
                /\ p[1] <= p[2]
                /\ \A k \in p[1] .. p[2] : s[k] \in W
                /\ (p[1] = 1 \/ s[p[1] - 1] \notin W)
                /\ (p[2] = Len(s) \/ s[p[2] + 1] \notin W)}}

\* set(re.findall(r'\w+', s)): the maximal runs of word characters
findall_words(s) ==
    {SubSeq(s, i, j) : <<i, j>> \in
        {p \in (1 .. Len(s)) \X (1 .. Len(s)) :
            /\ p[1] <= p[2]
            /\ \A k \in p[1] .. p[2] : s[k] \in WordChars
            /\ (p[1] = 1 \/ s[p[1] - 1] \notin WordChars)
            /\ (p[2] = Len(s) \/ s[p[2] + 1] \notin WordChars)}}

\* needle in hay
Contains(needle, hay) ==
    \E i \in 0 .. (Len(hay) - Len(needle)) :
        SubSeq(hay, i + 1, i + Len(needle)) = needle

\* ------------------------------------------------------------ exact_match
\* a slip: the comparison is case-sensitive
exact_match_NoLower(predicted, expected) ==
    IF ~Truthy(predicted) \/ ~Truthy(expected) THEN Return(Zero)
    ELSE IF strip(predicted.v) = strip(expected.v)
         THEN Return(One) ELSE Return(Zero)

\* a slip: only None is rejected, an empty string is compared like any other
exact_match_NoEmptyGuard(predicted, expected) ==
    IF predicted.t = "none" \/ expected.t = "none" THEN Return(Zero)
    ELSE IF lower(strip(predicted.v)) = lower(strip(expected.v))
         THEN Return(One) ELSE Return(Zero)

exact_match(predicted, expected) ==
    IF ~Truthy(predicted) \/ ~Truthy(expected) THEN Return(Zero)
    ELSE LET predicted_clean == lower(strip(predicted.v))
             expected_clean == lower(strip(expected.v))
         IN  IF predicted_clean = expected_clean
             THEN Return(One) ELSE Return(Zero)

\* ---------------------------------------------------------- partial_match
DefaultThreshold == <<1, 2>>

\* a slip: Jaccard and recall are added but not averaged
partial_match_NoHalving(predicted, expected, threshold) ==
    IF ~Truthy(predicted) \/ ~Truthy(expected) THEN Return(Zero)
    ELSE LET predicted_words == findall_words(lower(predicted.v))
             expected_words == findall_words(lower(expected.v))
             nI == Cardinality(predicted_words \cap expected_words)
             nU == Cardinality(predicted_words \cup expected_words)
         IN  IF expected_words = {} THEN Return(Zero)
             ELSE Return(RAdd(Rat(nI, nU), Rat(nI, Cardinality(expected_words))))

\* a slip: the second term divides by the predicted token count (precision)
partial_match_PrecisionForRecall(predicted, expected, threshold) ==
    IF ~Truthy(predicted) \/ ~Truthy(expected) THEN Return(Zero)
    ELSE LET predicted_words == findall_words(lower(predicted.v))
             expected_words == findall_words(lower(expected.v))
             nI == Cardinality(predicted_words \cap expected_words)
             nU == Cardinality(predicted_words \cup expected_words)
         IN  IF expected_words = {} \/ predicted_words = {} THEN Return(Zero)
             ELSE Return(RMul(<<1, 2>>,
                     RAdd(Rat(nI, nU), Rat(nI, Cardinality(predicted_words)))))

\* a slip: the threshold gates the score
partial_match_ThresholdGate(predicted, expected, threshold) ==
    IF ~Truthy(predicted) \/ ~Truthy(expected) THEN Return(Zero)
    ELSE LET predicted_words == findall_words(lower(predicted.v))
             expected_words == findall_words(lower(expected.v))
             nI == Cardinality(predicted_words \cap expected_words)
             nU == Cardinality(predicted_words \cup expected_words)
         IN  IF expected_words = {} THEN Return(Zero)
             ELSE LET score == RMul(<<1, 2>>,
                                  RAdd(Rat(nI, nU), Rat(nI, Cardinality(expected_words))))
                  IN  IF RLt(score, threshold) THEN Return(Zero) ELSE Return(score)

\* a slip: the guard on an empty expected_words is missing
partial_match_NoEmptyWordsGuard(predicted, expected, threshold) ==
    IF ~Truthy(predicted) \/ ~Truthy(expected) THEN Return(Zero)
    ELSE LET predicted_words == findall_words(lower(predicted.v))
             expected_words == findall_words(lower(expected.v))
             union == predicted_words \cup expected_words
             nI == Cardinality(predicted_words \cap expected_words)
             jaccard == IF union # {}
                        THEN TrueDiv(<<nI, 1>>, <<Cardinality(union), 1>>)
                        ELSE Return(Zero)
             recall == TrueDiv(<<nI, 1>>, <<Cardinality(expected_words), 1>>)
         IN  IF jaccard.exc # "none" THEN jaccard
             ELSE IF recall.exc # "none" THEN recall
             ELSE TrueDiv(RAdd(jaccard.val, recall.val), <<2, 1>>)

\* a slip: the score is the Jaccard term alone
partial_match_JaccardOnly(predicted, expected, threshold) ==
    IF ~Truthy(predicted) \/ ~Truthy(expected) THEN Return(Zero)
    ELSE LET predicted_words == findall_words(lower(predicted.v))
             expected_words == findall_words(lower(expected.v))
             nI == Cardinality(predicted_words \cap expected_words)
             nU == Cardinality(predicted_words \cup expected_words)
         IN  IF expected_words = {} THEN Return(Zero)
             ELSE Return(Rat(nI, nU))

\* a slip: the score is the recall term alone
partial_match_RecallOnly(predicted, expected, threshold) ==
    IF ~Truthy(predicted) \/ ~Truthy(expected) THEN Return(Zero)
    ELSE LET predicted_words == findall_words(lower(predicted.v))
             expected_words == findall_words(lower(expected.v))
             nI == Cardinality(predicted_words \cap expected_words)
         IN  IF expected_words = {} THEN Return(Zero)
             ELSE Return(Rat(nI, Cardinality(expected_words)))

partial_match(predicted, expected, threshold) ==
    IF ~Truthy(predicted) \/ ~Truthy(expected) THEN Return(Zero)
    ELSE LET predicted_words == findall_words(lower(predicted.v))
             expected_words == findall_words(lower(expected.v))
             intersection == predicted_words \cap expected_words
             union == predicted_words \cup expected_words
             nI == Cardinality(intersection)
         IN  IF expected_words = {} THEN Return(Zero)
             ELSE LET jaccard == IF union # {}
                                 THEN TrueDiv(<<nI, 1>>, <<Cardinality(union), 1>>)
                                 ELSE Return(Zero)
                      recall == TrueDiv(<<nI, 1>>, <<Cardinality(expected_words), 1>>)
                  IN  IF jaccard.exc # "none" THEN jaccard
                      ELSE IF recall.exc # "none" THEN recall
                      ELSE TrueDiv(RAdd(jaccard.val, recall.val), <<2, 1>>)

\* ----------------------------------------------------- fashion_similarity
\* the synonym groups, in the order of the dict literal
fashion_synonyms ==
    << [key |-> Chars("luxury"),
        synonyms |-> <<Chars("high-end"), Chars("premium"), Chars("upscale"), Chars("designer")>>],
       [key |-> Chars("casual"),
        synonyms |-> <<Chars("relaxed"), Chars("laid-back"), Chars("comfortable"), Chars("easy")>>],
       [key |-> Chars("elegant"),
        synonyms |-> <<Chars("sophisticated"), Chars("refined"), Chars("polished"), Chars("chic")>>],
       [key |-> Chars("trendy"),
        synonyms |-> <<Chars("fashionable"), Chars("stylish"), Chars("on-trend"), Chars("contemporary")>>],
       [key |-> Chars("vintage"),
        synonyms |-> <<Chars("retro"), Chars("classic"), Chars("throwback"), Chars("timeless")>>],
       [key |-> Chars("minimalist"),
        synonyms |-> <<Chars("simple"), Chars("clean"), Chars("understated"), Chars("minimal")>>],
       [key |-> Chars("bohemian"),
        synonyms |-> <<Chars("boho"), Chars("hippie"), Chars("free-spirited"), Chars("eclectic")>>],
       [key |-> Chars("streetwear"),
        synonyms |-> <<Chars("urban"), Chars("street-style"), Chars("casual-cool")>>],
       [key |-> Chars("athleisure"),
        synonyms |-> <<Chars("sporty"), Chars("athletic"), Chars("activewear")>>],
       [key |-> Chars("sustainable"),
        synonyms |-> <<Chars("eco-friendly"), Chars("ethical"), Chars("conscious"), Chars("green")>>] >>

\* [key] + synonyms, as a set
GroupTerms(g) == {g.key} \cup {g.synonyms[i] : i \in 1 .. Len(g.synonyms)}

\* lines 130-135: the loop over the groups; TRUE when it leaves by `break`
RECURSIVE GroupLoop(_, _, _)
GroupLoop(exp_word, predicted_lower, groups) ==
    IF groups = <<>> THEN FALSE
    ELSE LET g == Head(groups)
         IN  IF /\ (exp_word = g.key
                    \/ \E i \in 1 .. Len(g.synonyms) : g.synonyms[i] = exp_word)
                /\ \E syn \in GroupTerms(g) : Contains(syn, predicted_lower)
             THEN TRUE
             ELSE GroupLoop(exp_word, predicted_lower, Tail(groups))

\* a slip: a synonym has to be a token of predicted, not a substring of it
SynonymMatch_TokenExact(exp_word, predicted_words, predicted_lower) ==
    /\ exp_word \notin predicted_words
    /\ \E n \in 1 .. Len(fashion_synonyms) :
        LET g == fashion_synonyms[n]
        IN  /\ exp_word \in GroupTerms(g)
            /\ GroupTerms(g) \cap predicted_words # {}

\* a slip: the `continue` of line 127 is missing, so a directly matched token
\* is looked up in the groups too
SynonymMatch_CountsDirect(exp_word, predicted_words, predicted_lower) ==
    GroupLoop(exp_word, predicted_lower, fashion_synonyms)

\* the body of the loop over expected_words: does exp_word add a synonym match
SynonymMatch(exp_word, predicted_words, predicted_lower) ==
    /\ exp_word \notin predicted_words
    /\ GroupLoop(exp_word, predicted_lower, fashion_synonyms)

\* a slip: `break` instead of `continue` at line 127
RECURSIVE SynonymLoop_BreakOnDirect(_, _, _, _)
SynonymLoop_BreakOnDirect(word_order, predicted_words, predicted_lower, synonym_matches) ==
    IF word_order = <<>> THEN synonym_matches
    ELSE IF Head(word_order) \in predicted_words THEN synonym_matches
    ELSE SynonymLoop_BreakOnDirect(Tail(word_order), predicted_words, predicted_lower,
             IF SynonymMatch(Head(word_order), predicted_words, predicted_lower)
             THEN synonym_matches + 1 ELSE synonym_matches)

\* lines 125-135: the loop over expected_words, which the runtime visits in
\* the order word_order; the value of synonym_matches after the loop
RECURSIVE SynonymLoop(_, _, _, _)
SynonymLoop(word_order, predicted_words, predicted_lower, synonym_matches) ==
    IF word_order = <<>> THEN synonym_matches
    ELSE SynonymLoop(Tail(word_order), predicted_words, predicted_lower,
             IF SynonymMatch(Head(word_order), predicted_words, predicted_lower)
             THEN synonym_matches + 1 ELSE synonym_matches)

\* a slip: the weights 0.7 and 0.3 are exchanged
TokenBranch_WeightsSwapped(predicted_lower, expected_lower, word_order) ==
    LET predicted_words == findall_words(predicted_lower)
        expected_words == findall_words(expected_lower)
        n == Cardinality(expected_words)
    IN  IF n = 0 THEN Return(Zero)
        ELSE Return(RMin(
                 RAdd(RMul(Rat(Cardinality(predicted_words \cap expected_words), n), <<3, 10>>),
                      RMul(Rat(SynonymLoop(word_order, predicted_words, predicted_lower, 0), n),
                           <<7, 10>>)),
                 One))

\* a slip: base_score divides by the size of the union, which penalises
\* predicted tokens that are not expected
FinalScore_PenalizesExtra(predicted_words, expected_words, synonym_matches) ==
    LET n == Cardinality(expected_words)
    IN  IF n = 0 THEN Return(Zero)
        ELSE Return(RMin(
                 RAdd(RMul(Rat(Cardinality(predicted_words \cap expected_words),
                               Cardinality(predicted_words \cup expected_words)),
                           <<7, 10>>),
                      RMul(Rat(synonym_matches, n), <<3, 10>>)),
                 One))

\* lines 117-119 and 137-142: the score, given the count the loop left in
\* synonym_matches
FinalScore(predicted_words, expected_words, synonym_matches) ==
    LET direct_overlap == predicted_words \cap expected_words
        expected_word_count == Cardinality(expected_words)
        base_score ==
            IF expected_words # {}
            THEN TrueDiv(<<Cardinality(direct_overlap), 1>>, <<expected_word_count, 1>>)
            ELSE Return(Zero)
        synonym_score ==
            IF expected_word_count > 0
            THEN TrueDiv(<<synonym_matches, 1>>, <<expected_word_count, 1>>)
            ELSE Return(Zero)
    IN  IF base_score.exc # "none" THEN base_score
        ELSE IF synonym_score.exc # "none" THEN synonym_score
        ELSE LET final_score ==
                     RAdd(RMul(base_score.val, <<7, 10>>),
                          RMul(synonym_score.val, <<3, 10>>))
             IN  Return(RMin(final_score, One))

\* lines 113-142: the score of the token branch
TokenBranch(predicted_lower, expected_lower, word_order) ==
    LET predicted_words == findall_words(predicted_lower)
        expected_words == findall_words(expected_lower)
    IN  FinalScore(predicted_words, expected_words,
                   SynonymLoop(word_order, predicted_words, predicted_lower, 0))

\* a slip: the substring branch scores like an exact match
fashion_similarity_SubstringIsOne(predicted, expected, word_order) ==
    IF ~Truthy(predicted) \/ ~Truthy(expected) THEN Return(Zero)
    ELSE LET predicted_lower == lower(predicted.v)
             expected_lower == lower(expected.v)
         IN  IF predicted_lower = expected_lower THEN Return(One)
             ELSE IF Contains(expected_lower, predicted_lower)
                     \/ Contains(predicted_lower, expected_lower)
             THEN Return(One)
             ELSE TokenBranch(predicted_lower, expected_lower, word_order)

\* a slip: only `expected_lower in predicted_lower` is tested
fashion_similarity_OneWaySubstring(predicted, expected, word_order) ==
    IF ~Truthy(predicted) \/ ~Truthy(expected) THEN Return(Zero)
    ELSE LET predicted_lower == lower(predicted.v)
             expected_lower == lower(expected.v)
         IN  IF predicted_lower = expected_lower THEN Return(One)
             ELSE IF Contains(expected_lower, predicted_lower)
             THEN Return(<<9, 10>>)
             ELSE TokenBranch(predicted_lower, expected_lower, word_order)

\* word_order is the order in which the set expected_words is iterated
fashion_similarity(predicted, expected, word_order) ==
    IF ~Truthy(predicted) \/ ~Truthy(expected) THEN Return(Zero)
    ELSE LET predicted_lower == lower(predicted.v)
             expected_lower == lower(expected.v)
         IN  IF predicted_lower = expected_lower THEN Return(One)
             ELSE IF Contains(expected_lower, predicted_lower)
                     \/ Contains(predicted_lower, expected_lower)
             THEN Return(<<9, 10>>)
             ELSE TokenBranch(predicted_lower, expected_lower, word_order)

\* the orders in which a set can be iterated
IterationOrders(S) ==
    {o \in [1 .. Cardinality(S) -> S] : \A i, j \in 1 .. Cardinality(S) : o[i] = o[j] => i = j}

\* the iteration orders of expected_words a call of fashion_similarity can meet
WordOrders(predicted, expected) ==
    IF Truthy(predicted) /\ Truthy(expected)
    THEN IterationOrders(findall_words(lower(expected.v)))
    ELSE {<<>>}

\* ----------------------------------------------------- list_overlap_score
\* a slip: the items are trimmed but not lowercased
NormalizedSet_NoLower(items) == {strip(items[i]) : i \in 1 .. Len(items)}

\* set(item.lower().strip() for item in items)
NormalizedSet(items) == {strip(lower(items[i])) : i \in 1 .. Len(items)}

list_overlap_score(predicted, expected) ==
    IF ~Truthy(expected) THEN Return(Zero)
    ELSE IF ~Truthy(predicted) THEN Return(Zero)
    ELSE LET predicted_set == NormalizedSet(predicted.v)
             expected_set == NormalizedSet(expected.v)
             nI == Cardinality(predicted_set \cap expected_set)
             precision == IF predicted_set # {}
                          THEN TrueDiv(<<nI, 1>>, <<Cardinality(predicted_set), 1>>)
                          ELSE Return(Zero)
             recall == IF expected_set # {}
                       THEN TrueDiv(<<nI, 1>>, <<Cardinality(expected_set), 1>>)
                       ELSE Return(Zero)
         IN  IF precision.exc # "none" THEN precision
             ELSE IF recall.exc # "none" THEN recall
             ELSE IF RAdd(precision.val, recall.val) = Zero THEN Return(Zero)
             ELSE TrueDiv(RMul(<<2, 1>>, RMul(precision.val, recall.val)),
                          RAdd(precision.val, recall.val))

\* --------------------------------------------------------- weighted_score
\* sum(f[k] for k in keys)
RECURSIVE SumOver(_, _)
SumOver(f, keys) ==
    IF keys = {} THEN Zero
    ELSE LET k == CHOOSE x \in keys : TRUE
         IN  RAdd(f[k], SumOver(f, keys \ {k}))

\* d.get(key, default)
Get(d, key, default) == IF key \in DOMAIN d THEN d[key] ELSE default

\* a slip: the total weight is not tested before the division
weighted_score_NoZeroGuard(scores, weights) ==
    IF ~Truthy(scores) THEN Return(Zero)
    ELSE LET w == IF weights.t = "none"
                  THEN [key \in DOMAIN scores.v |-> One]
                  ELSE weights.v
             total_weight == SumOver(w, DOMAIN w)
             weighted_sum ==
                 SumOver([key \in DOMAIN scores.v |->
                              RMul(scores.v[key], Get(w, key, One))],
                         DOMAIN scores.v)
         IN  TrueDiv(weighted_sum, total_weight)

weighted_score(scores, weights) ==
    IF ~Truthy(scores) THEN Return(Zero)
    ELSE LET w == IF weights.t = "none"
                  THEN [key \in DOMAIN scores.v |-> One]
                  ELSE weights.v
             total_weight == SumOver(w, DOMAIN w)
         IN  IF total_weight = Zero THEN Return(Zero)
             ELSE LET weighted_sum ==
                          SumOver([key \in DOMAIN scores.v |->
                                       RMul(scores.v[key], Get(w, key, One))],
                                  DOMAIN scores.v)
                  IN  TrueDiv(weighted_sum, total_weight)

\* ----------------------------------------------------- calculate_accuracy
AccuracyThreshold == <<7, 10>>

\* sum(f(r) for r in results), f given as the sequence of its values
RECURSIVE SumSeq(_)
SumSeq(values) ==
    IF values = <<>> THEN Zero ELSE RAdd(Head(values), SumSeq(Tail(values)))

\* the dict calculate_accuracy returns
Metrics4(total, passed, accuracy, avg_score) ==
    [total |-> total, passed |-> passed, accuracy |-> accuracy, avg_score |-> avg_score]

\* a slip: a score equal to the threshold does not pass
calculate_accuracy_StrictThreshold(results, threshold) ==
    IF ~Truthy(results) THEN Return(Metrics4(0, 0, Zero, Zero))
    ELSE LET total == Len(results.v)
             score == [i \in 1 .. total |-> Get(results.v[i], "score", Zero)]
             passed == Cardinality({i \in 1 .. total : RLt(threshold, score[i])})
         IN  Return(Metrics4(total, passed, Rat(passed, total),
                             Rat(SumSeq(score)[1], SumSeq(score)[2] * total)))

\* a slip: the guard on empty results is missing
calculate_accuracy_NoEmptyGuard(results, threshold) ==
    LET total == Len(results.v)
        score == [i \in 1 .. total |-> Get(results.v[i], "score", Zero)]
        passed == Cardinality({i \in 1 .. total : RLe(threshold, score[i])})
        avg_score == TrueDiv(SumSeq(score), <<total, 1>>)
        accuracy == TrueDiv(<<passed, 1>>, <<total, 1>>)
    IN  IF avg_score.exc # "none" THEN avg_score
        ELSE IF accuracy.exc # "none" THEN accuracy
        ELSE Return(Metrics4(total, passed, accuracy.val, avg_score.val))

calculate_accuracy(results, threshold) ==
    IF ~Truthy(results) THEN Return(Metrics4(0, 0, Zero, Zero))
    ELSE LET total == Len(results.v)
             score == [i \in 1 .. total |-> Get(results.v[i], "score", Zero)]
             passed == Cardinality({i \in 1 .. total : RLe(threshold, score[i])})
             avg_score == TrueDiv(SumSeq(score), <<total, 1>>)
             accuracy == TrueDiv(<<passed, 1>>, <<total, 1>>)
         IN  IF avg_score.exc # "none" THEN avg_score
             ELSE IF accuracy.exc # "none" THEN accuracy
             ELSE Return(Metrics4(total, passed, accuracy.val, avg_score.val))

\* ----------------------------------------------- values of the evaluators
PyBool(b) == [t |-> "bool", v |-> b]

\* d[key] = value
Put(d, key, value) == [k \in DOMAIN d \cup {key} |-> IF k = key THEN value ELSE d[k]]

\* a == b on the values the evaluators compare
PyEq(a, b) == a.t = b.t /\ a.v = b.v

UpperChar(c) ==
    IF \E i \in 1 .. 26 : LowerCase[i] = c
    THEN UpperCase[CHOOSE i \in 1 .. 26 : LowerCase[i] = c]
    ELSE c

\* s.upper()
upper(s) == [i \in 1 .. Len(s) |-> UpperChar(s[i])]

\* set(s.split()): the maximal runs of characters that are not whitespace
split_words(s) ==
    {SubSeq(s, p[1], p[2]) : p \in
        {p \in (1 .. Len(s)) \X (1 .. Len(s)) :
            /\ p[1] <= p[2]
            /\ \A k \in p[1] .. p[2] : s[k] \notin Whitespace
            /\ (p[1] = 1 \/ s[p[1] - 1] \in Whitespace)
            /\ (p[2] = Len(s) \/ s[p[2] + 1] \in Whitespace)}}

\* the last index of the longest run of characters of class that starts at
\* i; i - 1 when there is none
RunEnd(s, i, class) ==
    CHOOSE j \in (i - 1) .. Len(s) :
        /\ \A k \in i .. j : s[k] \in class
        /\ (j = Len(s) \/ s[j + 1] \notin class)

\* the smallest element of a non-empty set of integers
Min(S) == CHOOSE i \in S : \A j \in S : i <= j

\* re.findall(r'code\s+(\w+)', text, re.IGNORECASE): the groups, leftmost
\* match first; <<>> or the one-element list of the first group
findall_code(text) ==
    LET low == lower(text)
        SpaceEnd(i) == RunEnd(text, i + 4, Whitespace)
        WordEnd(i) == RunEnd(text, SpaceEnd(i) + 1, WordChars)
        starts == {i \in 1 .. Len(text) - 3 :
                      /\ SubSeq(low, i, i + 3) = Chars("code")
                      /\ SpaceEnd(i) >= i + 4
                      /\ WordEnd(i) >= SpaceEnd(i) + 1}
    IN  IF starts = {} THEN <<>>
        ELSE <<SubSeq(text, SpaceEnd(Min(starts)) + 1, WordEnd(Min(starts)))>>

DigitChars == {Digits[i] : i \in 1 .. 10}

\* re.findall(r'(\d+)%', text): <<>> or the one-element list of the first group
findall_percent(text) ==
    LET DigitsEnd(i) == RunEnd(text, i, DigitChars)
        starts == {i \in 1 .. Len(text) :
                      /\ text[i] \in DigitChars
                      /\ DigitsEnd(i) < Len(text)
                      /\ text[DigitsEnd(i) + 1] = "%"}
    IN  IF starts = {} THEN <<>>
        ELSE <<SubSeq(text, Min(starts), DigitsEnd(Min(starts)))>>

\* ----------------------------------------- evals/affiliate_eval.py
sponsored_keywords ==
    <<Chars("#ad"), Chars("#gifted"), Chars("#sponsored"), Chars("paid partnership"),
      Chars("partnering")>>

\* result.get(key) is truthy
GetTruthy(d, key) ==
    /\ key \in DOMAIN d
    /\ \/ d[key].t = "bool" /\ d[key].v
       \/ d[key].t \in {"str", "list", "dict"} /\ DOMAIN d[key].v # {}

\* the dict detect_affiliate_content(text) returns
\* kw in text_lower
In(kw, text_lower) == Contains(Chars(kw), text_lower)

\* the steps of detect_affiliate_content, each taking the result dict as the
\* steps before it left it
\* affiliate platforms
DetectPlatform(detected, text_lower) ==
    IF In("ltk", text_lower) \/ In("liketoknow", text_lower)
    THEN Put(Put(detected, "has_affiliate", PyBool(TRUE)), "platform",
             IF In("shop.ltk", text_lower) THEN PyStr(Chars("ShopLTK"))
             ELSE PyStr(Chars("LTK")))
    ELSE detected

\* Amazon affiliate
DetectAmazon(detected, text_lower) ==
    IF In("amazon", text_lower) /\ (In("storefront", text_lower) \/ In("finds", text_lower))
    THEN Put(Put(Put(detected, "has_affiliate", PyBool(TRUE)),
                 "platform", PyStr(Chars("Amazon"))),
             "type", PyStr(Chars("affiliate_storefront")))
    ELSE detected

\* discount codes, and the discount percentage when there is a code
DetectDiscount(detected, codes, discounts) ==
    IF codes # <<>>
    THEN LET coded == Put(Put(Put(detected, "has_affiliate", PyBool(TRUE)),
                              "type", IF ~GetTruthy(detected, "type")
                                      THEN PyStr(Chars("discount_code"))
                                      ELSE detected["type"]),
                          "code", PyStr(codes[1]))
         IN  IF discounts # <<>>
             THEN Put(coded, "discount", PyStr(discounts[1] \o Chars("%")))
             ELSE coded
    ELSE detected

\* sponsored content
DetectSponsored(detected, found_disclosures) ==
    IF found_disclosures # <<>>
    THEN Put(Put(Put(detected, "has_affiliate", PyBool(TRUE)),
                 "type", PyStr(Chars("sponsored"))),
             "disclosures", PyList(found_disclosures))
    ELSE detected

\* brand partnerships: the type becomes result.get("type"), which is None
\* when no step has set it
DetectPartnership(detected, text_lower) ==
    IF In("partnering", text_lower) \/ In("partnership", text_lower)
    THEN Put(detected, "type",
             IF GetTruthy(detected, "has_affiliate")
             THEN PyStr(Chars("brand_partnership"))
             ELSE Get(detected, "type", None))
    ELSE detected

\* organic content
DetectOrganic(detected, text_lower) ==
    IF ~detected["has_affiliate"].v
        /\ (In("thrifted", text_lower) \/ In("no links", text_lower)
              \/ In("just sharing", text_lower))
    THEN Put(detected, "type", PyStr(Chars("organic")))
    ELSE detected

\* link mentions
DetectLinks(detected, text_lower) ==
    IF In("link", text_lower) \/ In("swipe up", text_lower) \/ In("tap to shop", text_lower)
    THEN Put(Put(detected, "has_affiliate", PyBool(TRUE)), "indicators",
             IF In("link", text_lower)
             THEN PyList(Append(Get(detected, "indicators", PyList(<<>>)).v,
                                Chars("link in bio")))
             ELSE Get(detected, "indicators", PyList(<<>>)))
    ELSE detected

\* [kw for kw in sponsored_keywords if kw in text_lower]
FoundDisclosures(text_lower) ==
    LET InText(kw) == Contains(kw, text_lower)
    IN  SelectSeq(sponsored_keywords, InText)

detect_affiliate_content(text) ==
    DetectLinks(
        DetectOrganic(
            DetectPartnership(
                DetectSponsored(
                    DetectDiscount(
                        DetectAmazon(
                            DetectPlatform([k \in {"has_affiliate"} |-> PyBool(FALSE)],
                                           lower(text)),
                            lower(text)),
                        findall_code(text), findall_percent(text)),
                    FoundDisclosures(lower(text))),
                lower(text)),
            lower(text)),
        lower(text))

\* what one check of a score function adds: to the score, to the number of
\* components, or the exception it raised
Part(score, components) == [exc |-> "none", score |-> score, components |-> components]
PartRaise(e) == [exc |-> e, score |-> Zero, components |-> Zero]

\* the parts in order: the first exception escapes, else the sums
RECURSIVE SumParts(_, _, _)
SumParts(parts, score, components) ==
    IF parts = <<>> THEN Part(score, components)
    ELSE IF Head(parts).exc # "none" THEN Head(parts)
    ELSE SumParts(Tail(parts), RAdd(score, Head(parts).score),
                  RAdd(components, Head(parts).components))

\* x.lower() == y.lower(), for x and y that have to be str to have the method
LowerEq(x, y) ==
    IF x.t # "str" \/ y.t # "str" THEN Raise("AttributeError")
    ELSE Return(lower(x.v) = lower(y.v))

\* str(x), for a str or None
str(x) == IF x.t = "none" THEN Chars("None") ELSE x.v

\* the set of d.lower() for d in a list of str
LowerSet(l) == {lower(l.v[i]) : i \in 1 .. Len(l.v)}

calculate_affiliate_score(predicted, expected) ==
    IF ~Truthy(expected) THEN Return(Zero)
    ELSE LET p == predicted.v
             e == expected.v
             Empty == PyStr(<<>>)
             has_affiliate ==
                 IF "has_affiliate" \notin DOMAIN e THEN Part(Zero, Zero)
                 ELSE IF "has_affiliate" \in DOMAIN p
                         /\ PyEq(p["has_affiliate"], e["has_affiliate"])
                 THEN Part(<<2, 1>>, <<2, 1>>)
                 ELSE Part(Zero, <<2, 1>>)
             platform ==
                 IF "platform" \notin DOMAIN e THEN Part(Zero, Zero)
                 ELSE LET same == LowerEq(Get(p, "platform", Empty), e["platform"])
                      IN  IF same.exc # "none" THEN PartRaise(same.exc)
                          ELSE IF same.val THEN Part(One, One)
                          ELSE Part(Zero, One)
             type ==
                 IF "type" \notin DOMAIN e THEN Part(Zero, Zero)
                 ELSE LET same == LowerEq(Get(p, "type", Empty), e["type"])
                      IN  IF same.exc # "none" THEN PartRaise(same.exc)
                          ELSE IF same.val THEN Part(One, One)
                          ELSE IF Contains(e["type"].v, str(Get(p, "type", Empty)))
                          THEN Part(<<1, 2>>, One)
                          ELSE Part(Zero, One)
             code ==
                 IF "code" \notin DOMAIN e THEN Part(Zero, Zero)
                 ELSE IF Get(p, "code", Empty).t # "str" \/ e["code"].t # "str"
                 THEN PartRaise("AttributeError")
                 ELSE IF upper(Get(p, "code", Empty).v) = upper(e["code"].v)
                 THEN Part(One, One)
                 ELSE Part(Zero, One)
             discount ==
                 IF "discount" \notin DOMAIN e THEN Part(Zero, Zero)
                 ELSE IF PyEq(Get(p, "discount", None), e["discount"])
                 THEN Part(<<1, 2>>, <<1, 2>>)
                 ELSE Part(Zero, <<1, 2>>)
             disclosures ==
                 IF "disclosures" \notin DOMAIN e THEN Part(Zero, Zero)
                 ELSE LET expected_disclosures == LowerSet(e["disclosures"])
                          predicted_disclosures ==
                              LowerSet(Get(p, "disclosures", PyList(<<>>)))
                          overlap == Cardinality(expected_disclosures
                                                     \cap predicted_disclosures)
                      IN  IF overlap > 0
                          THEN Part(Rat(overlap, Cardinality(expected_disclosures)), One)
                          ELSE Part(Zero, One)
             total == SumParts(<<has_affiliate, platform, type, code, discount,
                                 disclosures>>, Zero, Zero)
         IN  IF total.exc # "none" THEN Raise(total.exc)
             ELSE IF RLt(Zero, total.components)
             THEN TrueDiv(total.score, total.components)
             ELSE Return(Zero)

\* ------------------------------------------- evals/hashtag_eval.py
hashtag_db ==
    [tag \in {Chars("#ootd"), Chars("#grwm"), Chars("#tryonhaul"), Chars("#iykyk"),
              Chars("#dupealert"), Chars("#ootw"), Chars("#ltk"), Chars("#shein"),
              Chars("#thriftflip"), Chars("#wiwtd")} |->
        LET Entry(meaning, category, purpose) ==
                [meaning |-> PyStr(Chars(meaning)), category |-> PyStr(Chars(category)),
                 purpose |-> PyStr(Chars(purpose))]
        IN  CASE tag = Chars("#ootd") ->
                     Entry("Outfit Of The Day", "outfit_sharing",
                           "showcase daily outfit choice")
              [] tag = Chars("#grwm") ->
                     Entry("Get Ready With Me", "lifestyle_content",
                           "document preparation routine")
              [] tag = Chars("#tryonhaul") ->
                     Entry("Try On Haul", "shopping_content",
                           "show purchased items being worn")
              [] tag = Chars("#iykyk") ->
                     Entry("If You Know You Know", "insider_reference",
                           "subtle flex or insider knowledge")
              [] tag = Chars("#dupealert") ->
                     Entry("Dupe Alert", "budget_fashion", "share affordable alternative")
              [] tag = Chars("#ootw") ->
                     Entry("Outfit Of The Week", "outfit_sharing",
                           "showcase weekly outfit choices")
              [] tag = Chars("#ltk") ->
                     Entry("LikeToKnowIt", "affiliate_marketing",
                           "monetize through affiliate links")
              [] tag = Chars("#shein") ->
                     Entry("SHEIN brand", "brand_tag", "tag fast fashion retailer")
              [] tag = Chars("#thriftflip") ->
                     Entry("Thrift Flip", "sustainable_fashion",
                           "show thrifted item upcycle")
              [] tag = Chars("#wiwtd") ->
                     Entry("What I Wore Today", "outfit_sharing",
                           "share outfit for specific day")]

understand_hashtag(hashtag, context) ==
    LET hashtag_lower == lower(hashtag)
    IN  IF hashtag_lower \in DOMAIN hashtag_db THEN hashtag_db[hashtag_lower]
        ELSE [meaning |-> PyStr(Chars("Unknown hashtag")),
              category |-> PyStr(Chars("general")),
              purpose |-> PyStr(Chars("social media engagement"))]

\* one of the checks of calculate_hashtag_score on the field key: 1.0 when
\* the lowercased values are equal, partial when one contains the other,
\* else words when they share a whitespace-separated word
FieldCheck(predicted, expected, key, partial, words) ==
    IF key \notin DOMAIN expected \/ key \notin DOMAIN predicted THEN Part(Zero, Zero)
    ELSE IF expected[key].t # "str" \/ predicted[key].t # "str"
    THEN PartRaise("AttributeError")
    ELSE LET e == lower(expected[key].v)
             p == lower(predicted[key].v)
         IN  IF e = p THEN Part(One, Zero)
             ELSE IF Contains(e, p) \/ Contains(p, e) THEN Part(partial, Zero)
             ELSE IF split_words(e) \cap split_words(p) # {} THEN Part(words, Zero)
             ELSE Part(Zero, Zero)

calculate_hashtag_score(predicted, expected) ==
    IF ~Truthy(expected) \/ ~Truthy(predicted) THEN Return(Zero)
    ELSE LET total_components == <<3, 1>>
             total == SumParts(
                 <<FieldCheck(predicted.v, expected.v, "meaning", <<7, 10>>, Zero),
                   FieldCheck(predicted.v, expected.v, "category", <<1, 2>>, Zero),
                   FieldCheck(predicted.v, expected.v, "purpose", <<7, 10>>, <<2, 5>>)>>,
                 Zero, Zero)
         IN  IF total.exc # "none" THEN Raise(total.exc)
             ELSE TrueDiv(total.score, total_components)

\* ---------------------------------- evals/product_extraction_eval.py
brands ==
    <<Chars("Zara"), Chars("Reformation"), Chars("Nike"), Chars("Levi's"), Chars("H&M"),
      Chars("Jacquemus"), Chars("Chanel"), Chars("Mango"), Chars("Bottega Veneta"),
      Chars("Skims")>>

\* the currency signs of the price pattern that ASCII text can hold
CurrencySigns == {"$"}

\* re.findall(r'[\$...]\d+(?:\.\d{2})?', text): <<>> or the first match
findall_price(text) ==
    LET n == Len(text)
        DigitsEnd(i) == RunEnd(text, i + 1, DigitChars)
        End(i) == IF /\ DigitsEnd(i) + 3 <= n
                     /\ text[DigitsEnd(i) + 1] = "."
                     /\ text[DigitsEnd(i) + 2] \in DigitChars
                     /\ text[DigitsEnd(i) + 3] \in DigitChars
                  THEN DigitsEnd(i) + 3 ELSE DigitsEnd(i)
        starts == {i \in 1 .. n - 1 : text[i] \in CurrencySigns /\ text[i + 1] \in DigitChars}
    IN  IF starts = {} THEN <<>>
        ELSE <<SubSeq(text, Min(starts), End(Min(starts)))>>

\* re.findall(r'https?://[^\s]+', text): <<>> or the first match
findall_url(text) ==
    LET n == Len(text)
        \* where the text after the scheme starts, 0 when i starts no scheme
        Rest(i) == IF i + 6 <= n /\ SubSeq(text, i, i + 6) = Chars("http://") THEN i + 7
                   ELSE IF i + 7 <= n /\ SubSeq(text, i, i + 7) = Chars("https://")
                   THEN i + 8
                   ELSE 0
        starts == {i \in 1 .. n : /\ Rest(i) # 0
                                  /\ Rest(i) <= n
                                  /\ text[Rest(i)] \notin Whitespace}
        NonSpaceEnd(i) ==
            CHOOSE j \in Rest(i) .. n :
                /\ \A k \in Rest(i) .. j : text[k] \notin Whitespace
                /\ (j = n \/ text[j + 1] \in Whitespace)
    IN  IF starts = {} THEN <<>>
        ELSE <<SubSeq(text, Min(starts), NonSpaceEnd(Min(starts)))>>

\* the first of the found strings is stored under key, if there is one
PutFirst(info, key, found) ==
    IF found # <<>> THEN Put(info, key, PyStr(found[1])) ELSE info

\* the brands of the list that are in the text, in the order of the list
FoundBrands(text) ==
    LET InText(brand) == Contains(brand, text)
    IN  SelectSeq(brands, InText)

\* link detection
ExtractLink(info, text) ==
    IF Contains(Chars("link"), lower(text)) \/ Contains(Chars("http"), text)
    THEN PutFirst(Put(info, "link_mentioned", PyBool(TRUE)), "link", findall_url(text))
    ELSE info

\* affiliate platform detection
ExtractPlatform(info, text) ==
    IF Contains(Chars("LTK"), text) \/ Contains(Chars("ltk"), lower(text))
    THEN Put(info, "affiliate_platform",
             IF Contains(Chars("LTK"), text) THEN PyStr(Chars("LTK"))
             ELSE PyStr(Chars("ShopLTK")))
    ELSE info

extract_key_info(text) ==
    ExtractPlatform(
        ExtractLink(
            PutFirst(
                PutFirst(
                    PutFirst(<<>>, "brand", FoundBrands(text)),
                    "price", findall_price(text)),
                "discount_code", findall_code(text)),
            text),
        text)

\* what the field key adds to correct_fields
FieldCorrect(predicted, expected, key) ==
    IF key \notin DOMAIN predicted THEN Part(Zero, Zero)
    ELSE IF expected[key].t = "bool"
    THEN IF PyEq(predicted[key], expected[key]) THEN Part(One, Zero) ELSE Part(Zero, Zero)
    ELSE IF expected[key].t = "str"
    THEN IF predicted[key].t # "str" THEN PartRaise("AttributeError")
         ELSE LET p == lower(predicted[key].v)
                  e == lower(expected[key].v)
              IN  IF p = e THEN Part(One, Zero)
                  ELSE IF Contains(e, p) \/ Contains(p, e) THEN Part(<<7, 10>>, Zero)
                  ELSE Part(Zero, Zero)
    ELSE IF PyEq(predicted[key], expected[key]) THEN Part(One, Zero)
    ELSE Part(Zero, Zero)

\* the loop over expected.items()
RECURSIVE FieldLoop(_, _, _, _)
FieldLoop(predicted, expected, keys, correct_fields) ==
    IF keys = {} THEN Part(correct_fields, Zero)
    ELSE LET key == CHOOSE k \in keys : TRUE
             field == FieldCorrect(predicted, expected, key)
         IN  IF field.exc # "none" THEN field
             ELSE FieldLoop(predicted, expected, keys \ {key},
                            RAdd(correct_fields, field.score))

calculate_extraction_score(predicted, expected) ==
    IF ~Truthy(expected) THEN Return(Zero)
    ELSE IF "items" \in DOMAIN expected.v THEN Return(<<1, 2>>)
    ELSE LET total_fields == Cardinality(DOMAIN expected.v)
             correct == FieldLoop(predicted.v, expected.v, DOMAIN expected.v, Zero)
         IN  IF correct.exc # "none" THEN Raise(correct.exc)
             ELSE IF total_fields > 0 THEN TrueDiv(correct.score, <<total_fields, 1>>)
             ELSE Return(Zero)

\* ------------------------------------------- evals/writing_eval.py
rewrite_caption(original, context, style) ==
    LET context_lower == lower(context)
        Has(kw) == Contains(Chars(kw), context_lower)
    IN  IF Has("blazer") /\ Has("jeans")
        THEN Chars("Elevated casual perfection: tailored blazer meets classic denim. Sophisticated yet comfortable.")
        ELSE IF Has("floral") /\ Has("midi")
        THEN Chars("Spring blooms in this dreamy floral midi. Effortless elegance with garden party charm.")
        ELSE IF Has("sneakers") /\ Has("white")
        THEN Chars("Statement sneakers that steal the show. Clean, bold, endlessly wearable.")
        ELSE IF Has("little black dress") \/ Has("lbd")
        THEN Chars("That LBD energy: timeless, confident, unforgettable. When the dress speaks volumes.")
        ELSE IF Has("sweater") /\ Has("leggings")
        THEN Chars("Cozy season done right: wrapped in comfort without sacrificing style.")
        ELSE IF Has("pencil skirt") /\ Has("blouse")
        THEN Chars("Boardroom ready: polished power dressing meets feminine sophistication.")
        ELSE IF Has("vintage") \/ Has("thrifted")
        THEN Chars("Sustainable style wins: this vintage treasure proves pre-loved is best. Thrifted, not bought.")
        ELSE IF Has("linen") /\ Has("summer")
        THEN Chars("Sun-soaked sophistication: breezy linens for endless summer days. Vacation mode on.")
        ELSE IF Has("coat") /\ Has("bold")
        THEN Chars("That compliment magnet: when your coat steals the spotlight. Bold moves, big impact.")
        ELSE IF Has("loungewear")
        THEN Chars("Elevated lounging: staying in never looked this chic. Cozy, coordinated, completely stylish.")
        ELSE Chars("Transformed from '") \o original
                 \o Chars("' into elevated fashion content with ") \o style
                 \o Chars(" vibes.")

descriptive_words ==
    {Chars("elevated"), Chars("chic"), Chars("sophisticated"), Chars("effortless"),
     Chars("timeless"), Chars("bold"), Chars("dreamy"), Chars("cozy")}

\* one iteration order of a set; fashion_similarity returns the same for each
RECURSIVE AnyOrder(_)
AnyOrder(S) ==
    IF S = {} THEN <<>>
    ELSE LET x == CHOOSE x \in S : TRUE IN <<x>> \o AnyOrder(S \ {x})

\* fashion_similarity as the evaluators call it
Similarity(predicted, expected) ==
    fashion_similarity(predicted, expected,
        IF Truthy(predicted) /\ Truthy(expected) /\ expected.t = "str"
        THEN AnyOrder(findall_words(lower(expected.v)))
        ELSE <<>>)

\* a slip: the weight of the semantic similarity is 0.5
evaluate_writing_quality_HeavySimilarity(generated, expected) ==
    LET similarity == Similarity(generated, expected)
    IN  Return(RAdd(RAdd(IF Len(generated.v) > 50 THEN <<1, 5>> ELSE Zero,
                         IF \E word \in descriptive_words :
                                Contains(word, lower(generated.v))
                         THEN <<3, 10>> ELSE Zero),
                    RAdd(IF \E i \in 1 .. Len(generated.v) : generated.v[i] \in {".", ":"}
                         THEN <<1, 5>> ELSE Zero,
                         RMul(similarity.val, <<1, 2>>))))

evaluate_writing_quality(generated, expected) ==
    IF generated.t # "str" THEN Raise("TypeError")
    ELSE LET length == IF Len(generated.v) > 50 THEN <<1, 5>> ELSE Zero
             descriptive == IF \E word \in descriptive_words :
                                   Contains(word, lower(generated.v))
                            THEN <<3, 10>> ELSE Zero
             structure == IF \E i \in 1 .. Len(generated.v) : generated.v[i] \in {".", ":"}
                          THEN <<1, 5>> ELSE Zero
             similarity == Similarity(generated, expected)
         IN  IF similarity.exc # "none" THEN similarity
             ELSE Return(RAdd(RAdd(RAdd(length, descriptive), structure),
                              RMul(similarity.val, <<3, 10>>)))

\* ----------------------------------- evals/trend_detection_eval.py
\* example.get(key, "")
GetStr(example, key) == IF key \in DOMAIN example THEN example[key].v ELSE <<>>

\* simulate_model_response of the trend evaluator
simulate_trend_response(example) ==
    LET context_lower == lower(GetStr(example, "context"))
        Has(kw) == Contains(Chars(kw), context_lower)
    IN  IF Has("barbiecore") \/ Has("pink")
        THEN Chars("Barbiecore and Y2K pink aesthetic revival")
        ELSE IF Has("blazer") /\ Has("structured")
        THEN Chars("Oversized tailoring, power dressing, structured silhouettes")
        ELSE IF Has("loafer") \/ Has("mini bag")
        THEN Chars("Chunky loafers, mini bags, long coats")
        ELSE IF Has("dopamine")
        THEN Chars("Dopamine dressing and maximalist color trend")
        ELSE IF Has("quiet luxury")
        THEN Chars("Quiet luxury and stealth wealth aesthetic")
        ELSE IF Has("sustainable")
        THEN Chars("90s minimalism, sustainability, and gender-neutral fashion")
        ELSE IF Has("balletcore")
        THEN Chars("Balletcore, clean girl aesthetic, cozy cardio")
        ELSE IF Has("streetwear")
        THEN Chars("Luxury streetwear fusion, sneaker culture")
        ELSE Chars("Contemporary fashion trend")

\* lines 104-109: the mean of partial_match and fashion_similarity
trend_score(model_output, expected) ==
    LET partial_score == partial_match(model_output, expected, DefaultThreshold)
        similarity_score == Similarity(model_output, expected)
    IN  IF partial_score.exc # "none" THEN partial_score
        ELSE IF similarity_score.exc # "none" THEN similarity_score
        ELSE TrueDiv(RAdd(partial_score.val, similarity_score.val), <<2, 1>>)

\* ------------------------------------------------ evals/style_eval.py
\* the keyword lists of classify_style and the category each one selects
style_rules ==
    LET Rule(words, style) == [words |-> words, style |-> Chars(style)]
    IN  << Rule({Chars("blazer"), Chars("trousers"), Chars("professional"), Chars("tote"),
                 Chars("corporate")}, "Corporate/Professional"),
           Rule({Chars("leather jacket"), Chars("distressed"), Chars("combat boots"),
                 Chars("grunge"), Chars("band t-shirt")}, "Grunge/Rock"),
           Rule({Chars("floral"), Chars("maxi dress"), Chars("basket bag"),
                 Chars("bohemian"), Chars("woven")}, "Bohemian/Boho"),
           Rule({Chars("hoodie"), Chars("joggers"), Chars("sneakers"), Chars("athleisure"),
                 Chars("sporty")}, "Athleisure/Sporty"),
           Rule({Chars("cashmere"), Chars("quiet luxury"), Chars("minimalist"),
                 Chars("tailored wool")}, "Quiet Luxury/Minimalist"),
           Rule({Chars("streetwear"), Chars("baggy jeans"), Chars("nike"), Chars("puffer"),
                 Chars("urban")}, "Streetwear/Urban"),
           Rule({Chars("coquette"), Chars("pastel"), Chars("ribbon"), Chars("pearl"),
                 Chars("feminine")}, "Coquette/Feminine"),
           Rule({Chars("hypebeast"), Chars("cargo pants"), Chars("bucket hat"),
                 Chars("chains")}, "Hypebeast/Streetwear"),
           Rule({Chars("linen"), Chars("espadrilles"), Chars("coastal"), Chars("resort"),
                 Chars("straw hat")}, "Coastal/Resort"),
           Rule({Chars("tweed"), Chars("classic"), Chars("timeless"),
                 Chars("kitten heels")}, "Classic/Timeless") >>

classify_style(description) ==
    LET description_lower == lower(description)
        applies == {i \in 1 .. Len(style_rules) :
                       \E word \in style_rules[i].words : Contains(word, description_lower)}
    IN  IF applies # {} THEN style_rules[Min(applies)].style
        ELSE Chars("Contemporary/Mixed")

\* lines 112-118: exact match with fallback to similarity
style_score(model_output, expected) ==
    LET exact_score == exact_match(model_output, expected)
        similarity_score == Similarity(model_output, expected)
    IN  IF exact_score.exc # "none" THEN exact_score
        ELSE IF RLt(exact_score.val, One)
        THEN IF similarity_score.exc # "none" THEN similarity_score
             ELSE Return(IF RLe(similarity_score.val, exact_score.val)
                         THEN exact_score.val ELSE similarity_score.val)
        ELSE exact_score

\* ------------------------------------ the evaluate_* functions of evals/
\* the pass mark each evaluator compares a score with
PassMarkSevenTenths == <<7, 10>>
PassMarkSixTenths == <<3, 5>>

\* a slip: the average divides by the number of examples that passed
Aggregates_AverageOverPassed(n, results, total_score, pass_mark) ==
    LET passed == Cardinality({i \in 1 .. Len(results) : RLe(pass_mark, results[i].score)})
    IN  [total_examples |-> n, passed |-> passed,
         avg_score |-> IF passed > 0 THEN Rat(total_score[1], total_score[2] * passed)
                       ELSE Zero]

\* the overall metrics an evaluate_* function computes after its loop, n
\* being len(examples)
Aggregates(n, results, total_score, pass_mark) ==
    [total_examples |-> n,
     passed |-> Cardinality({i \in 1 .. Len(results) : RLe(pass_mark, results[i].score)}),
     avg_score |-> IF n > 0 THEN Rat(total_score[1], total_score[2] * n) ELSE Zero]

\* the body the six evaluate_* functions share: the results of the loop
\* over the examples of the dataset and the aggregates; what the call
\* returns or raises. For each example, echo is the part of it that is
\* copied into its result, model_output is simulate_model_response and score
\* the outcome of the evaluator's score function.
Evaluation(eval_name, examples, echo, model_output, score, pass_mark) ==
    LET n == Len(examples)
        raised == {i \in 1 .. n : score[i].exc # "none"}
    IN  IF raised # {} THEN Raise(score[Min(raised)].exc)
        ELSE LET results == [i \in 1 .. n |->
                                echo[i] @@ [expected |-> examples[i]["expected"],
                                            model_output |-> model_output[i],
                                            score |-> score[i].val]]
                 total_score == SumSeq([i \in 1 .. n |-> score[i].val])
             IN  Return([eval_name |-> eval_name, model |-> "simulated",
                         results |-> results]
                            @@ Aggregates(n, results, total_score, pass_mark))

\* the fields of an example that its result repeats
Fields(example, keys) == [k \in keys |-> example[k]]

\* the expected answers of the examples
Expected(examples) == [i \in 1 .. Len(examples) |-> examples[i]["expected"]]

evaluate_trend_detection(examples) ==
    LET model_output == [i \in 1 .. Len(examples) |->
                            PyStr(simulate_trend_response(examples[i]))]
    IN  Evaluation("Trend Detection", examples,
                   [i \in 1 .. Len(examples) |-> Fields(examples[i], {"id", "question"})],
                   model_output,
                   [i \in 1 .. Len(examples) |->
                       trend_score(model_output[i], Expected(examples)[i])],
                   PassMarkSevenTenths)

evaluate_product_extraction(examples) ==
    LET model_output == [i \in 1 .. Len(examples) |->
                            PyDict(extract_key_info(GetStr(examples[i], "text")))]
    IN  Evaluation("Product Extraction", examples,
                   [i \in 1 .. Len(examples) |-> Fields(examples[i], {"id", "text"})],
                   model_output,
                   [i \in 1 .. Len(examples) |->
                       calculate_extraction_score(model_output[i], Expected(examples)[i])],
                   PassMarkSevenTenths)

evaluate_style_classification(examples) ==
    LET model_output == [i \in 1 .. Len(examples) |->
                            PyStr(classify_style(GetStr(examples[i], "description")))]
    IN  Evaluation("Style Classification", examples,
                   [i \in 1 .. Len(examples) |-> Fields(examples[i], {"id", "description"})],
                   model_output,
                   [i \in 1 .. Len(examples) |->
                       style_score(model_output[i], Expected(examples)[i])],
                   PassMarkSevenTenths)

\* example.get("style", "professional")
StyleOf(example) ==
    IF "style" \in DOMAIN example THEN example["style"].v ELSE Chars("professional")

evaluate_fashion_writing(examples) ==
    LET model_output == [i \in 1 .. Len(examples) |->
                            PyStr(rewrite_caption(GetStr(examples[i], "original"),
                                                  GetStr(examples[i], "context"),
                                                  StyleOf(examples[i])))]
    IN  Evaluation("Fashion Writing", examples,
                   [i \in 1 .. Len(examples) |->
                       Fields(examples[i], {"id", "original", "context"})],
                   model_output,
                   [i \in 1 .. Len(examples) |->
                       evaluate_writing_quality(model_output[i], Expected(examples)[i])],
                   PassMarkSixTenths)

evaluate_hashtag_understanding(examples) ==
    LET model_output == [i \in 1 .. Len(examples) |->
                            PyDict(understand_hashtag(GetStr(examples[i], "hashtag"),
                                                      GetStr(examples[i], "context")))]
    IN  Evaluation("Hashtag Understanding", examples,
                   [i \in 1 .. Len(examples) |->
                       Fields(examples[i], {"id", "hashtag", "context"})],
                   model_output,
                   [i \in 1 .. Len(examples) |->
                       calculate_hashtag_score(model_output[i], Expected(examples)[i])],
                   PassMarkSevenTenths)

evaluate_affiliate_detection(examples) ==
    LET model_output == [i \in 1 .. Len(examples) |->
                            PyDict(detect_affiliate_content(GetStr(examples[i], "text")))]
    IN  Evaluation("Affiliate Detection", examples,
                   [i \in 1 .. Len(examples) |-> Fields(examples[i], {"id", "text"})],
                   model_output,
                   [i \in 1 .. Len(examples) |->
                       calculate_affiliate_score(model_output[i], Expected(examples)[i])],
                   PassMarkSevenTenths)

\* ------------------------------------------------------------ the inputs
Alphabet == {"a", "b", "B", " ", "-"}

GeneratedStrings == UNION {[1 .. n -> Alphabet] : n \in 0 .. MaxLen}

ExampleStrings ==
    { Chars("Chic"), Chars(" chic "), Chars("red dress"), Chars("Dress, red"),
      Chars("red dress blue shoes"), Chars("luxury style"),
      Chars("high-end style"), Chars("premium look"), Chars("relaxed"),
      Chars("casualty"), Chars("casual"), Chars("Relaxed fit, retro dress"),
      Chars("retro, relaxed") }

StrInputs == {None} \cup {PyStr(s) : s \in GeneratedStrings \cup ExampleStrings}

Items == {Chars("Zara"), Chars("Nike"), Chars("nike"), Chars("h&m"), Chars(" NIKE ")}

ListInputs == {None} \cup {PyList(l) : l \in UNION {[1 .. n -> Items] : n \in 0 .. MaxItems}}

ScoreNames == {"a", "b"}
WeightNames == {"a", "b", "c"}
ScoreValues == {Zero, <<1, 2>>, One}
WeightValues == {<<w, 1>> : w \in 0 .. MaxWeight}

ScoresInputs == {PyDict(d) : d \in UNION {[K -> ScoreValues] : K \in SUBSET ScoreNames}}

WeightsInputs ==
    {None} \cup {PyDict(d) : d \in UNION {[K -> WeightValues] : K \in SUBSET WeightNames}}

\* the thresholds a caller passes: the defaults 0.5 and 0.7, and 0.6
Thresholds == {DefaultThreshold, <<3, 5>>, AccuracyThreshold}

\* result records: an id and, unless it is missing, a score
RecordScores == {Zero, <<1, 2>>, <<7, 10>>, <<9, 10>>}
Records == {[id |-> "x"]} \cup {[id |-> "x", score |-> q] : q \in RecordScores}

ResultsInputs == {None} \cup {PyList(l) : l \in UNION {[1 .. n -> Records] : n \in 0 .. MaxResults}}

\* ------------------------------------------- the inputs of the evaluators
MaxExamples == 2   \* longest generated dataset

\* posts given to detect_affiliate_content
AffiliateTexts ==
    { Chars(""), Chars("new outfit today"), Chars("Shop my look on LTK"),
      Chars("find it on shop.ltk"), Chars("My Amazon finds"),
      Chars("Amazon storefront code AMZ10"), Chars("Use code SAVE20 for 20% off"),
      Chars("#ad #gifted by Zara"), Chars("Excited about our partnership with Zara"),
      Chars("paid partnership with Nike"), Chars("thrifted this, no links"),
      Chars("just sharing my thrifted find"), Chars("swipe up to shop"),
      Chars("link in bio") }

\* a field a record does not have
Missing == [t |-> "missing", v |-> <<>>]

\* the dict of the fields of r that are not Missing
Present(r) == PyDict([k \in {k \in DOMAIN r : r[k].t # "missing"} |-> r[k]])

\* expected records of the affiliate dataset whose platform, type and code
\* are strings
AffiliateExpected ==
    { Present([has_affiliate |-> a, platform |-> p, type |-> t, code |-> c,
               discount |-> d, disclosures |-> l]) :
        a \in {Missing, PyBool(TRUE), PyBool(FALSE)},
        p \in {Missing, PyStr(Chars("ltk"))},
        t \in {Missing, PyStr(Chars("sponsored")), PyStr(Chars("organic"))},
        c \in {Missing, PyStr(Chars("save20"))},
        d \in {Missing, PyStr(Chars("20%"))},
        l \in {Missing, PyList(<<>>), PyList(<<Chars("#AD"), Chars("#gifted")>>)} }

HashtagExpected ==
    { PyDict([meaning |-> PyStr(Chars("Outfit Of The Day")),
              category |-> PyStr(Chars("outfit_sharing")),
              purpose |-> PyStr(Chars("showcase daily outfit choice"))]),
      PyDict([meaning |-> PyStr(Chars("Get Ready")),
              category |-> PyStr(Chars("lifestyle")),
              purpose |-> PyStr(Chars("preparation routine video"))]),
      PyDict([meaning |-> PyStr(Chars("LikeToKnowIt")),
              category |-> PyStr(Chars("affiliate_marketing"))]),
      PyDict([meaning |-> PyStr(Chars("Street style")),
              category |-> PyStr(Chars("trend")),
              purpose |-> PyStr(Chars("spot trends"))]) }

ProductTexts ==
    { Chars("Zara dress $49.99 use code SAVE20 link in bio"),
      Chars("Got it from H&M, see https://hm.com/x now"),
      Chars("Nike and Zara haul $120"), Chars("shop on ltk"), Chars("link in bio") }

ProductExpected ==
    { PyDict([brand |-> PyStr(Chars("Zara")), price |-> PyStr(Chars("$49.99")),
              discount_code |-> PyStr(Chars("save20")), link_mentioned |-> PyBool(TRUE)]),
      PyDict([brand |-> PyStr(Chars("H&M")), link |-> PyStr(Chars("https://hm.com/x"))]),
      PyDict([brand |-> PyStr(Chars("Nike Air")), price |-> PyStr(Chars("$120.00"))]),
      PyDict([items |-> PyList(<<>>)]),
      PyDict([link_mentioned |-> PyStr(Chars("yes"))]) }

Hashtags == {Chars("#OOTD"), Chars("#grwm"), Chars("#ltk"), Chars("#streetstyle")}

\* predicted records: what the heuristics return, and the empty dict
PredictedRecords ==
    {PyDict(detect_affiliate_content(text)) : text \in AffiliateTexts}
        \cup {PyDict(understand_hashtag(h, <<>>)) : h \in Hashtags}
        \cup {PyDict(extract_key_info(text)) : text \in ProductTexts}
        \cup {PyDict(<<>>)}

ExpectedRecords ==
    AffiliateExpected \cup HashtagExpected \cup ProductExpected \cup {None}

\* generated and expected captions, trends and styles
CaptionStrings ==
    { Chars(""), Chars("Chic"), Chars("Boardroom ready"), Chars("Elevated casual"),
      Chars("Boho"), Chars("Corporate/Professional"), Chars("Bohemian/Boho"),
      Chars("premium stealth wealth look"),
      Chars("Quiet luxury and stealth wealth aesthetic"),
      Chars("Cozy season done right: wrapped in comfort without sacrificing style."),
      Chars("Boardroom ready: polished power dressing meets feminine sophistication.") }

CaptionInputs == {PyStr(c) : c \in CaptionStrings}

\* an example of a dataset: a dict of str fields and the expected answer
Example(fields, expected) ==
    [k \in DOMAIN fields |-> PyStr(Chars(fields[k]))] @@ [expected |-> expected]

TrendExamples ==
    { Example([id |-> "t1", question |-> "Which trend is this?",
               context |-> "Pink everywhere, barbiecore is back"],
              PyStr(Chars("Barbiecore and Y2K pink aesthetic revival"))),
      Example([id |-> "t2", question |-> "Which trend is this?",
               context |-> "Structured blazer looks"],
              PyStr(Chars("Power dressing"))),
      Example([id |-> "t3", question |-> "Which trend is this?",
               context |-> "Denim on denim"],
              PyStr(Chars("Double denim"))),
      Example([id |-> "t4", question |-> "Which trend is this?",
               context |-> "quiet luxury knitwear"],
              PyStr(Chars("premium stealth wealth look"))) }

ProductExamples ==
    { Example([id |-> "p1", text |-> "Zara dress $49.99 use code SAVE20 link in bio"],
              PyDict([brand |-> PyStr(Chars("Zara")), price |-> PyStr(Chars("$49.99")),
                      discount_code |-> PyStr(Chars("save20")),
                      link_mentioned |-> PyBool(TRUE)])),
      Example([id |-> "p2", text |-> "Got it from H&M, see https://hm.com/x now"],
              PyDict([brand |-> PyStr(Chars("H&M")),
                      link |-> PyStr(Chars("https://hm.com/x"))])),
      Example([id |-> "p3", text |-> "Nike and Zara haul $120"],
              PyDict([brand |-> PyStr(Chars("Nike Air")),
                      price |-> PyStr(Chars("$120.00"))])),
      Example([id |-> "p4", text |-> "link in bio"],
              PyDict([link_mentioned |-> PyStr(Chars("yes"))])) }

StyleExamples ==
    { Example([id |-> "s1", description |-> "Tailored blazer and trousers"],
              PyStr(Chars("Corporate/Professional"))),
      Example([id |-> "s2", description |-> "Floral maxi dress"], PyStr(Chars("Boho"))),
      Example([id |-> "s3", description |-> "Plain tee"], PyStr(Chars("Casual"))),
      Example([id |-> "s4", description |-> "Nike hoodie and joggers"],
              PyStr(Chars("Streetwear/Urban"))) }

WritingExamples ==
    { Example([id |-> "w1", original |-> "New blazer", context |-> "blazer with jeans",
               style |-> "professional"],
              PyStr(Chars("Elevated casual"))),
      Example([id |-> "w2", original |-> "Work look",
               context |-> "pencil skirt and blouse", style |-> "professional"],
              PyStr(Chars("Boardroom ready"))),
      Example([id |-> "w3", original |-> "my bag", context |-> "gym bag"],
              PyStr(Chars("Chic gym bag"))),
      Example([id |-> "w4", original |-> "Beach day", context |-> "linen for summer",
               style |-> "playful"],
              PyStr(Chars(""))) }

HashtagExamples ==
    { Example([id |-> "h1", hashtag |-> "#OOTD", context |-> "my look"],
              PyDict([meaning |-> PyStr(Chars("Outfit Of The Day")),
                      category |-> PyStr(Chars("outfit_sharing")),
                      purpose |-> PyStr(Chars("showcase daily outfit choice"))])),
      Example([id |-> "h2", hashtag |-> "#grwm", context |-> "morning"],
              PyDict([meaning |-> PyStr(Chars("Get Ready")),
                      category |-> PyStr(Chars("lifestyle")),
                      purpose |-> PyStr(Chars("preparation routine video"))])),
      Example([id |-> "h3", hashtag |-> "#streetstyle", context |-> "city"],
              PyDict([meaning |-> PyStr(Chars("Street style")),
                      category |-> PyStr(Chars("trend")),
                      purpose |-> PyStr(Chars("spot trends"))])),
      Example([id |-> "h4", hashtag |-> "#ltk", context |-> "shop"],
              PyDict([meaning |-> PyStr(Chars("LikeToKnowIt")),
                      category |-> PyStr(Chars("affiliate_marketing"))])) }

AffiliateExamples ==
    { Example([id |-> "a1", text |-> "Use code SAVE20 for 20% off"],
              PyDict([has_affiliate |-> PyBool(TRUE),
                      type |-> PyStr(Chars("discount_code")),
                      code |-> PyStr(Chars("save20")),
                      discount |-> PyStr(Chars("20%"))])),
      Example([id |-> "a2", text |-> "new outfit today"],
              PyDict([has_affiliate |-> PyBool(FALSE)])),
      Example([id |-> "a3", text |-> "thrifted this, no links"],
              PyDict([has_affiliate |-> PyBool(FALSE), type |-> PyStr(Chars("organic"))])),
      Example([id |-> "a4", text |-> "Excited about our partnership with Zara"],
              PyDict([has_affiliate |-> PyBool(FALSE),
                      type |-> PyStr(Chars("organic"))])) }

\* the JSONL file each evaluator loads by default, and the examples from
\* which its lines are drawn
DatasetExamples ==
    [trend_detection |-> TrendExamples, product_extraction |-> ProductExamples,
     style_classification |-> StyleExamples, caption_rewriting |-> WritingExamples,
     hashtag_understanding |-> HashtagExamples, affiliate_detection |-> AffiliateExamples]

\* what load_dataset returns
Dataset(name, examples) == [name |-> name, examples |-> examples]

NoDataset == Dataset("none", <<>>)

Datasets ==
    UNION { {Dataset(name, examples) :
                examples \in UNION {[1 .. n -> DatasetExamples[name]] : n \in 0 .. MaxExamples}} :
            name \in DOMAIN DatasetExamples }

\* ------------------------------------------------------- the state machine
VARIABLES
    fn,          \* the function that was called, "none" before the call
    predicted,   \* arguments of the string and list metrics and of the
    expected,    \* evaluators' score functions
    scores,      \* arguments of weighted_score
    weights,
    results,     \* argument of calculate_accuracy
    dataset,     \* the examples an evaluate_* function loads
    threshold,   \* the threshold passed to partial_match or calculate_accuracy
    word_order,  \* the order in which the call iterated over expected_words
    result,      \* what the call returned or raised
    pc,          \* concurrent callers of fashion_similarity: where each one is
    frame,       \* ... each caller's arguments, loop state and result
    synonym_matches,  \* ... the storage of the calls' synonym_matches counters
    run_pc,      \* the runner: where run() is
    verbose,     \* ... its options
    eval_name,
    list_evals,
    evals_to_run,  \* ... the keys of the evaluations it selected
    position,    \* ... the index in evals_to_run of the current evaluation
    sys_stdout,  \* ... the stream that sys.stdout names
    old_stdout,  \* ... the local variable old_stdout
    all_results, \* ... the local variable all_results
    console,     \* ... what console.print wrote, and to which stream
    restore_stdout,  \* ... the stream the status display puts back when it stops
    function_outcomes,  \* ... for each evaluation, the ways the call of its function
                        \*     can end on the dataset files there can be
    outcomes,    \* history: the evaluations called so far and how each ended
    stream_at_start  \* history: sys.stdout when the current evaluation started

callvars ==
    <<fn, predicted, expected, scores, weights, results, dataset, threshold, word_order,
      result>>

concvars == <<pc, frame, synonym_matches>>

runvars ==
    <<run_pc, verbose, eval_name, list_evals, evals_to_run, position, sys_stdout,
      old_stdout, all_results, console, restore_stdout, function_outcomes, outcomes,
      stream_at_start>>

vars == <<callvars, concvars, runvars>>

args == <<predicted, expected, scores, weights, results, dataset>>

NoResult == [exc |-> "none", val |-> Zero]

\* the callers that run fashion_similarity at the same time
Callers == {1, 2}

\* a slip: synonym_matches is a module-level variable that all calls share
MatchesCell_Global(caller) == 0

\* where a call keeps its synonym_matches (line 122): in its own frame
MatchesCell(caller) == caller

Cells == {0} \cup Callers

Frame(p, e) ==
    [predicted |-> p, expected |-> e, pending |-> {}, overlapped |-> FALSE,
     result |-> NoResult]

\* the streams sys.stdout can name: the process's own, the proxy that the
\* console's status display installs on a terminal, a StringIO buffer
OriginalStream == "stdout"
ProxyStream == "status proxy"
CaptureStream == "StringIO"

\* an unbound local variable
Unbound == "unbound"

\* no call of run() is in progress
RunnerIdle ==
    /\ run_pc = "idle"
    /\ verbose = FALSE
    /\ eval_name = None
    /\ list_evals = FALSE
    /\ evals_to_run = <<>>
    /\ position = 1
    /\ sys_stdout = OriginalStream
    /\ old_stdout = Unbound
    /\ all_results = <<>>
    /\ console = <<>>
    /\ restore_stdout = Unbound
    /\ function_outcomes = <<>>
    /\ outcomes = <<>>
    /\ stream_at_start = OriginalStream

\* no caller of fashion_similarity is running
ConcurrentIdle ==
    /\ pc = [c \in Callers |-> "idle"]
    /\ frame = [c \in Callers |-> Frame(None, None)]
    /\ synonym_matches = [cell \in Cells |-> 0]

Init ==
    /\ ConcurrentIdle
    /\ RunnerIdle
    /\ dataset = NoDataset
    /\ fn = "none"
    /\ result = NoResult
    /\ threshold = Zero
    /\ word_order = <<>>
    /\ \/ /\ predicted \in StrInputs
          /\ expected \in StrInputs
          /\ scores = None
          /\ weights = None
          /\ results = None
       \/ /\ predicted \in ListInputs
          /\ expected \in ListInputs
          /\ scores = None
          /\ weights = None
          /\ results = None
       \/ /\ predicted = None
          /\ expected = None
          /\ scores \in ScoresInputs
          /\ weights \in WeightsInputs
          /\ results = None
       \/ /\ predicted = None
          /\ expected = None
          /\ scores = None
          /\ weights = None
          /\ results \in ResultsInputs \ {None}

IsStrArg(x) == x.t \in {"str", "none"}
IsListArg(x) == x.t \in {"list", "none"}

\* the state holds the arguments of a call on strings (or None)
StrCall == scores.t = "none" /\ results.t = "none" /\ IsStrArg(predicted) /\ IsStrArg(expected)

CallExactMatch ==
    /\ fn = "none" /\ StrCall
    /\ fn' = "exact_match"
    /\ result' = exact_match(predicted, expected)
    /\ UNCHANGED <<args, threshold, word_order>>
    /\ UNCHANGED <<concvars, runvars>>

CallPartialMatch ==
    /\ fn = "none" /\ StrCall
    /\ fn' = "partial_match"
    /\ \E t \in Thresholds :
        /\ threshold' = t
        /\ result' = partial_match(predicted, expected, t)
    /\ UNCHANGED <<args, word_order>>
    /\ UNCHANGED <<concvars, runvars>>

CallFashionSimilarity ==
    /\ fn = "none" /\ StrCall
    /\ fn' = "fashion_similarity"
    /\ \E o \in WordOrders(predicted, expected) :
        /\ word_order' = o
        /\ result' = fashion_similarity(predicted, expected, o)
    /\ UNCHANGED <<args, threshold>>
    /\ UNCHANGED <<concvars, runvars>>

CallListOverlapScore ==
    /\ fn = "none" /\ scores.t = "none" /\ results.t = "none"
    /\ IsListArg(predicted) /\ IsListArg(expected)
    /\ fn' = "list_overlap_score"
    /\ result' = list_overlap_score(predicted, expected)
    /\ UNCHANGED <<args, threshold, word_order>>
    /\ UNCHANGED <<concvars, runvars>>

CallCalculateAccuracy ==
    /\ fn = "none" /\ scores.t = "none"
    /\ predicted.t = "none" /\ expected.t = "none"
    /\ fn' = "calculate_accuracy"
    /\ \E t \in Thresholds :
        /\ threshold' = t
        /\ result' = calculate_accuracy(results, t)
    /\ UNCHANGED <<args, word_order>>
    /\ UNCHANGED <<concvars, runvars>>

CallWeightedScore ==
    /\ fn = "none" /\ scores.t = "dict"
    /\ fn' = "weighted_score"
    /\ result' = weighted_score(scores, weights)
    /\ UNCHANGED <<args, threshold, word_order>>
    /\ UNCHANGED <<concvars, runvars>>

Next ==
    \/ CallExactMatch
    \/ CallPartialMatch
    \/ CallFashionSimilarity
    \/ CallListOverlapScore
    \/ CallCalculateAccuracy
    \/ CallWeightedScore

Spec == Init /\ [][Next]_vars

\* ---------------------------------- fashion_similarity, called concurrently
\* Each caller runs fashion_similarity step by step: the tests before the
\* loop, one step for each iteration of the loop over expected_words (in any
\* order), and the final computation.  The steps of the callers interleave.
ConcurrentStrings ==
    {PyStr(Chars("high-end style")), PyStr(Chars("luxury style")),
     PyStr(Chars("casualty")), PyStr(Chars("relaxed"))}

ConcurrentInit ==
    /\ pc = [c \in Callers |-> "ready"]
    /\ frame \in [Callers -> {Frame(p, e) : p \in ConcurrentStrings, e \in ConcurrentStrings}]
    /\ synonym_matches = [cell \in Cells |-> 0]
    /\ fn = "none"
    /\ result = NoResult
    /\ threshold = Zero
    /\ word_order = <<>>
    /\ predicted = None /\ expected = None
    /\ scores = None /\ weights = None /\ results = None
    /\ dataset = NoDataset
    /\ RunnerIdle

\* lines 83-111: the call returns before it tokenizes
ReturnsEarly(p, e) ==
    \/ ~Truthy(p) \/ ~Truthy(e)
    \/ lower(p.v) = lower(e.v)
    \/ Contains(lower(e.v), lower(p.v))
    \/ Contains(lower(p.v), lower(e.v))

\* another call is between its first and its last step
OtherInProgress(c) == \E d \in Callers \ {c} : pc[d] = "loop"

\* lines 83-123
Enter(c) ==
    /\ pc[c] = "ready"
    /\ LET p == frame[c].predicted
           e == frame[c].expected
       IN  IF ReturnsEarly(p, e)
           THEN /\ pc' = [pc EXCEPT ![c] = "done"]
                /\ frame' = [frame EXCEPT ![c].result = fashion_similarity(p, e, <<>>)]
                /\ UNCHANGED synonym_matches
           ELSE /\ pc' = [pc EXCEPT ![c] = "loop"]
                /\ frame' = [frame EXCEPT ![c].pending = findall_words(lower(e.v)),
                                          ![c].overlapped = @ \/ OtherInProgress(c)]
                /\ synonym_matches' = [synonym_matches EXCEPT ![MatchesCell(c)] = 0]
    /\ UNCHANGED <<callvars, runvars>>

\* lines 125-135: one iteration of the loop over expected_words
Iterate(c) ==
    /\ pc[c] = "loop"
    /\ \E exp_word \in frame[c].pending :
        LET predicted_lower == lower(frame[c].predicted.v)
        IN  /\ frame' = [frame EXCEPT ![c].pending = @ \ {exp_word},
                                      ![c].overlapped = @ \/ OtherInProgress(c)]
            /\ synonym_matches' =
                   IF SynonymMatch(exp_word, findall_words(predicted_lower), predicted_lower)
                   THEN [synonym_matches EXCEPT ![MatchesCell(c)] = @ + 1]
                   ELSE synonym_matches
    /\ UNCHANGED <<pc, callvars, runvars>>

\* lines 137-142
Finish(c) ==
    /\ pc[c] = "loop"
    /\ frame[c].pending = {}
    /\ pc' = [pc EXCEPT ![c] = "done"]
    /\ frame' = [frame EXCEPT
           ![c].result = FinalScore(findall_words(lower(frame[c].predicted.v)),
                                    findall_words(lower(frame[c].expected.v)),
                                    synonym_matches[MatchesCell(c)]),
           ![c].overlapped = @ \/ OtherInProgress(c)]
    /\ UNCHANGED <<synonym_matches, callvars, runvars>>

ConcurrentNext == \E c \in Callers : Enter(c) \/ Iterate(c) \/ Finish(c)

SpecConcurrent == ConcurrentInit /\ [][ConcurrentNext]_vars

\* ------------------------------------------- the evaluators, called alone
\* A call of one of the evaluators' functions on arguments drawn in
\* EvaluatorInit, or of an evaluate_* function on the dataset it loads.
EvaluatorInit ==
    /\ ConcurrentIdle
    /\ RunnerIdle
    /\ fn = "none"
    /\ result = NoResult
    /\ threshold = Zero
    /\ word_order = <<>>
    /\ scores = None /\ weights = None /\ results = None
    /\ \/ /\ predicted \in PredictedRecords
          /\ expected \in ExpectedRecords
          /\ dataset = NoDataset
       \/ /\ predicted \in CaptionInputs
          /\ expected \in CaptionInputs
          /\ dataset = NoDataset
       \/ /\ predicted \in {PyStr(text) : text \in AffiliateTexts}
          /\ expected = None
          /\ dataset = NoDataset
       \/ /\ predicted = None
          /\ expected = None
          /\ dataset \in Datasets

\* the call fn returned or raised outcome
Called(name, outcome) ==
    /\ fn = "none"
    /\ fn' = name
    /\ result' = outcome
    /\ UNCHANGED <<args, threshold, word_order>>
    /\ UNCHANGED <<concvars, runvars>>

\* the state holds a predicted and an expected record
RecordCall == predicted.t = "dict"

\* the state holds a generated and an expected text
TextCall == predicted.t = "str" /\ expected.t = "str"

CallDetectAffiliateContent ==
    /\ predicted.t = "str" /\ expected.t = "none"
    /\ Called("detect_affiliate_content", Return(PyDict(detect_affiliate_content(predicted.v))))

CallCalculateAffiliateScore ==
    /\ RecordCall
    /\ Called("calculate_affiliate_score", calculate_affiliate_score(predicted, expected))

CallCalculateHashtagScore ==
    /\ RecordCall
    /\ Called("calculate_hashtag_score", calculate_hashtag_score(predicted, expected))

CallCalculateExtractionScore ==
    /\ RecordCall
    /\ Called("calculate_extraction_score", calculate_extraction_score(predicted, expected))

CallEvaluateWritingQuality ==
    /\ TextCall
    /\ Called("evaluate_writing_quality", evaluate_writing_quality(predicted, expected))

\* the scoring step of the loop of evaluate_trend_detection
TrendScoreStep ==
    /\ TextCall
    /\ Called("trend_score", trend_score(predicted, expected))

\* the scoring step of the loop of evaluate_style_classification
StyleScoreStep ==
    /\ TextCall
    /\ Called("style_score", style_score(predicted, expected))

CallEvaluateTrendDetection ==
    /\ dataset.name = "trend_detection"
    /\ Called("evaluate_trend_detection", evaluate_trend_detection(dataset.examples))

CallEvaluateProductExtraction ==
    /\ dataset.name = "product_extraction"
    /\ Called("evaluate_product_extraction", evaluate_product_extraction(dataset.examples))

CallEvaluateStyleClassification ==
    /\ dataset.name = "style_classification"
    /\ Called("evaluate_style_classification",
              evaluate_style_classification(dataset.examples))

CallEvaluateFashionWriting ==
    /\ dataset.name = "caption_rewriting"
    /\ Called("evaluate_fashion_writing", evaluate_fashion_writing(dataset.examples))

CallEvaluateHashtagUnderstanding ==
    /\ dataset.name = "hashtag_understanding"
    /\ Called("evaluate_hashtag_understanding",
              evaluate_hashtag_understanding(dataset.examples))

CallEvaluateAffiliateDetection ==
    /\ dataset.name = "affiliate_detection"
    /\ Called("evaluate_affiliate_detection", evaluate_affiliate_detection(dataset.examples))

EvaluatorNext ==
    \/ CallDetectAffiliateContent
    \/ CallCalculateAffiliateScore
    \/ CallCalculateHashtagScore
    \/ CallCalculateExtractionScore
    \/ CallEvaluateWritingQuality
    \/ TrendScoreStep
    \/ StyleScoreStep
    \/ CallEvaluateTrendDetection
    \/ CallEvaluateProductExtraction
    \/ CallEvaluateStyleClassification
    \/ CallEvaluateFashionWriting
    \/ CallEvaluateHashtagUnderstanding
    \/ CallEvaluateAffiliateDetection

SpecEvaluators == EvaluatorInit /\ [][EvaluatorNext]_vars

\* --------------------------------------------------- the runner: run()
\* EVALUATIONS in the order of the dict: the key, the display name, and the
\* JSONL file that the evaluation's function loads by default
EVALUATIONS ==
    << [key |-> Chars("trend_detection"), name |-> "Trend Detection",
        file |-> "trend_detection"],
       [key |-> Chars("product_extraction"), name |-> "Product Extraction",
        file |-> "product_extraction"],
       [key |-> Chars("style_classification"), name |-> "Style Classification",
        file |-> "style_classification"],
       [key |-> Chars("fashion_writing"), name |-> "Fashion Writing",
        file |-> "caption_rewriting"],
       [key |-> Chars("hashtag_understanding"), name |-> "Hashtag Understanding",
        file |-> "hashtag_understanding"],
       [key |-> Chars("affiliate_detection"), name |-> "Affiliate Detection",
        file |-> "affiliate_detection"] >>

\* EVALUATIONS.keys(), in order
EvaluationKeys == [i \in 1 .. Len(EVALUATIONS) |-> EVALUATIONS[i].key]

\* the index in EVALUATIONS of a key
IndexOf(key) == CHOOSE i \in 1 .. Len(EVALUATIONS) : EVALUATIONS[i].key = key

\* EVALUATIONS[key]
Info(key) == EVALUATIONS[IndexOf(key)]

\* eval_info["function"](model_name=model) on a dataset file holding examples
CallFunction(info, examples) ==
    CASE info.file = "trend_detection" -> evaluate_trend_detection(examples)
      [] info.file = "product_extraction" -> evaluate_product_extraction(examples)
      [] info.file = "style_classification" -> evaluate_style_classification(examples)
      [] info.file = "caption_rewriting" -> evaluate_fashion_writing(examples)
      [] info.file = "hashtag_understanding" -> evaluate_hashtag_understanding(examples)
      [] info.file = "affiliate_detection" -> evaluate_affiliate_detection(examples)

\* the examples that the dataset files hold when run() is called
RunnerLines == {"t1", "p3", "s1", "w2", "h1", "a1", "a4"}

\* the contents a dataset file can have when run() is called: no line or
\* one line
RunnerDatasets(file) ==
    {<<>>} \cup {<<ex>> : ex \in {e \in DatasetExamples[file] :
                                    \E id \in RunnerLines : e.id = PyStr(Chars(id))}}

\* how the call of an evaluation's function can end: load_dataset fails on
\* a missing file, or the function runs on the file's examples
EvaluationOutcomes(info) ==
    {Raise("FileNotFoundError")}
        \cup {CallFunction(info, examples) : examples \in RunnerDatasets(info.file)}

\* the values of --eval
EvalNameOptions ==
    {None, PyStr(Chars("")), PyStr(Chars("runway"))}
        \cup {PyStr(EVALUATIONS[i].key) : i \in 1 .. Len(EVALUATIONS)}

\* the file the console writes to: sys.stdout, read at each write, or the
\* terminal behind it when sys.stdout is the status display's proxy
ConsoleFile(stream) == IF stream = ProxyStream THEN OriginalStream ELSE stream

\* one thing console.print wrote
Item(text, detail, stream) == [text |-> text, detail |-> detail, file |-> ConsoleFile(stream)]

\* the status shown in a row of the results table
RowStatus(passed, examples) ==
    LET pass_rate == IF examples > 0 THEN Rat(passed, examples) ELSE Zero
    IN  IF RLe(<<4, 5>>, pass_rate) THEN "Excellent"
        ELSE IF RLe(<<3, 5>>, pass_rate) THEN "Good"
        ELSE "Needs Work"

\* sum(values) of integers
RECURSIVE SumInts(_)
SumInts(values) == IF values = <<>> THEN 0 ELSE Head(values) + SumInts(Tail(values))

\* the table print_results_table builds: a row for each result and the
\* OVERALL row; the :.3f text of the scores is left out
results_table(results_list) ==
    [rows |-> [i \in 1 .. Len(results_list) |->
                  [eval_name |-> results_list[i].eval_name,
                   examples |-> results_list[i].total_examples,
                   passed |-> results_list[i].passed,
                   status |-> RowStatus(results_list[i].passed,
                                        results_list[i].total_examples)]],
     overall |-> [examples |-> SumInts([i \in 1 .. Len(results_list) |->
                                           results_list[i].total_examples]),
                  passed |-> SumInts([i \in 1 .. Len(results_list) |->
                                         results_list[i].passed])]]

\* what print_results_table writes
print_results_table(results_list, stream) ==
    << Item("newline", "", stream),
       Item("table", results_table(results_list), stream),
       Item("newline", "", stream) >>

\* the grade of the summary panel
Grade(results_list) ==
    LET total == SumSeq([i \in 1 .. Len(results_list) |-> results_list[i].avg_score])
        avg_score == Rat(total[1], total[2] * Len(results_list))
    IN  IF RLe(<<4, 5>>, avg_score) THEN "A"
        ELSE IF RLe(<<7, 10>>, avg_score) THEN "B"
        ELSE IF RLe(<<3, 5>>, avg_score) THEN "C"
        ELSE "D"

\* print_header() and the two lines after it
Preamble(stream) ==
    << Item("header", "", stream),
       Item("model", "simulated", stream),
       Item("mode", IF Truthy(eval_name) THEN "Single Eval" ELSE "Full Suite", stream) >>

\* a slip: the except branch does not put sys.stdout back
StreamAfterFailure_NoRestore(is_verbose, saved, current) == current

\* sys.stdout after `if not verbose: sys.stdout = old_stdout` on the way out
\* of the try body and in the except branch
StreamAfterReturn(is_verbose, saved, current) == IF ~is_verbose THEN saved ELSE current

StreamAfterFailure(is_verbose, saved, current) == IF ~is_verbose THEN saved ELSE current

\* a slip: the except branch leaves the loop
NextAfterFailure_Break(i, selected) == Len(selected) + 1

\* the index of the evaluation the loop turns to after `continue`
NextAfterFailure(i, selected) == i + 1

\* sys.stdout once the status display has stopped: the display puts back
\* the stream it replaced, if it replaced one
StreamAfterStatus(replaced, current) == IF replaced # Unbound THEN replaced ELSE current

\* run() is called with its options; the dataset files are as they are
RunnerInit ==
    /\ function_outcomes = <<EvaluationOutcomes(EVALUATIONS[1]),
                             EvaluationOutcomes(EVALUATIONS[2]),
                             EvaluationOutcomes(EVALUATIONS[3]),
                             EvaluationOutcomes(EVALUATIONS[4]),
                             EvaluationOutcomes(EVALUATIONS[5]),
                             EvaluationOutcomes(EVALUATIONS[6])>>
    /\ ConcurrentIdle
    /\ fn = "none"
    /\ result = NoResult
    /\ threshold = Zero
    /\ word_order = <<>>
    /\ predicted = None /\ expected = None
    /\ scores = None /\ weights = None /\ results = None
    /\ dataset = NoDataset
    /\ run_pc = "start"
    /\ verbose \in BOOLEAN
    /\ eval_name \in EvalNameOptions
    /\ list_evals \in BOOLEAN
    /\ evals_to_run = <<>>
    /\ position = 1
    /\ sys_stdout = OriginalStream
    /\ old_stdout = Unbound
    /\ all_results = <<>>
    /\ console = <<>>
    /\ restore_stdout = Unbound
    /\ outcomes = <<>>
    /\ stream_at_start = OriginalStream

\* --list: the keys and descriptions are written and run() returns
ListEvaluations ==
    /\ run_pc = "start"
    /\ list_evals
    /\ console' = console
           \o <<Item("available evaluations", "", sys_stdout)>>
           \o [i \in 1 .. Len(EVALUATIONS) |-> Item("evaluation", EVALUATIONS[i].name,
                                                    sys_stdout)]
           \o <<Item("newline", "", sys_stdout)>>
    /\ run_pc' = "returned"
    /\ UNCHANGED <<verbose, eval_name, list_evals, evals_to_run, position, sys_stdout,
                   old_stdout, all_results, restore_stdout, function_outcomes,
                   outcomes, stream_at_start>>
    /\ UNCHANGED <<callvars, concvars>>

\* --eval names no evaluation: two lines are written and sys.exit(1) ends
\* the run
RejectUnknownEvaluation ==
    /\ run_pc = "start"
    /\ ~list_evals
    /\ Truthy(eval_name)
    /\ \A i \in 1 .. Len(EVALUATIONS) : EVALUATIONS[i].key # eval_name.v
    /\ console' = console \o Preamble(sys_stdout)
           \o << Item("error", "unknown evaluation", sys_stdout),
                 Item("hint", "use --list", sys_stdout) >>
    /\ run_pc' = "exited"
    /\ UNCHANGED <<verbose, eval_name, list_evals, evals_to_run, position, sys_stdout,
                   old_stdout, all_results, restore_stdout, function_outcomes,
                   outcomes, stream_at_start>>
    /\ UNCHANGED <<callvars, concvars>>

\* the evaluations to run are selected, all_results is created and the
\* status display starts; on a terminal the display replaces sys.stdout by
\* its proxy and keeps the stream it replaced
SelectEvaluations ==
    /\ run_pc = "start"
    /\ ~list_evals
    /\ IF Truthy(eval_name)
       THEN /\ \E i \in 1 .. Len(EVALUATIONS) : EVALUATIONS[i].key = eval_name.v
            /\ evals_to_run' = <<eval_name.v>>
       ELSE evals_to_run' = EvaluationKeys
    /\ console' = console \o Preamble(sys_stdout)
    /\ all_results' = <<>>
    /\ \/ /\ sys_stdout' = ProxyStream
          /\ restore_stdout' = sys_stdout
       \/ /\ sys_stdout' = sys_stdout
          /\ restore_stdout' = Unbound
    /\ position' = 1
    /\ run_pc' = "loop"
    /\ UNCHANGED <<verbose, eval_name, list_evals, old_stdout, function_outcomes, outcomes,
                   stream_at_start>>
    /\ UNCHANGED <<callvars, concvars>>

\* the loop turns to the next evaluation and enters the try body: unless
\* verbose, sys.stdout is saved and replaced by a StringIO, and the
\* evaluation's function is called
BeginEvaluation ==
    /\ run_pc = "loop"
    /\ position <= Len(evals_to_run)
    /\ stream_at_start' = sys_stdout
    /\ IF ~verbose
       THEN /\ old_stdout' = sys_stdout
            /\ sys_stdout' = CaptureStream
       ELSE UNCHANGED <<old_stdout, sys_stdout>>
    /\ run_pc' = "evaluating"
    /\ UNCHANGED <<verbose, eval_name, list_evals, evals_to_run, position, all_results,
                   console, restore_stdout, function_outcomes, outcomes>>
    /\ UNCHANGED <<callvars, concvars>>

\* the function returned: sys.stdout is put back, the result is appended
\* and the completion is written
EvaluationReturns ==
    /\ run_pc = "evaluating"
    /\ LET info == Info(evals_to_run[position])
       IN  \E outcome \in function_outcomes[IndexOf(info.key)] :
               /\ outcome.exc = "none"
               /\ sys_stdout' = StreamAfterReturn(verbose, old_stdout, sys_stdout)
               /\ all_results' = Append(all_results, outcome.val)
               /\ console' = Append(console, Item("completed", info.name, sys_stdout'))
               /\ outcomes' = Append(outcomes, [key |-> info.key, outcome |-> outcome])
    /\ position' = position + 1
    /\ run_pc' = "loop"
    /\ UNCHANGED <<verbose, eval_name, list_evals, evals_to_run, old_stdout,
                   restore_stdout, function_outcomes, stream_at_start>>
    /\ UNCHANGED <<callvars, concvars>>

\* the function raised an Exception: sys.stdout is put back, the failure is
\* written and the loop continues
EvaluationRaises ==
    /\ run_pc = "evaluating"
    /\ LET info == Info(evals_to_run[position])
       IN  \E outcome \in function_outcomes[IndexOf(info.key)] :
               /\ outcome.exc # "none"
               /\ sys_stdout' = StreamAfterFailure(verbose, old_stdout, sys_stdout)
               /\ console' = Append(console, Item("failed", info.name, sys_stdout'))
               /\ outcomes' = Append(outcomes, [key |-> info.key, outcome |-> outcome])
    /\ position' = NextAfterFailure(position, evals_to_run)
    /\ run_pc' = "loop"
    /\ UNCHANGED <<verbose, eval_name, list_evals, evals_to_run, old_stdout, all_results,
                   restore_stdout, function_outcomes, stream_at_start>>
    /\ UNCHANGED <<callvars, concvars>>

\* the loop is over and some evaluation returned: the status display
\* stops, the table, the summary and the footer are written
ReportResults ==
    /\ run_pc = "loop"
    /\ position > Len(evals_to_run)
    /\ all_results # <<>>
    /\ sys_stdout' = StreamAfterStatus(restore_stdout, sys_stdout)
    /\ console' = console
           \o print_results_table(all_results, sys_stdout')
           \o << Item("summary", Grade(all_results), sys_stdout'),
                 Item("footer", "", sys_stdout') >>
    /\ run_pc' = "returned"
    /\ UNCHANGED <<verbose, eval_name, list_evals, evals_to_run, position, old_stdout,
                   all_results, restore_stdout, function_outcomes,
                   outcomes, stream_at_start>>
    /\ UNCHANGED <<callvars, concvars>>

\* the loop is over and no evaluation returned
ReportNothing ==
    /\ run_pc = "loop"
    /\ position > Len(evals_to_run)
    /\ all_results = <<>>
    /\ sys_stdout' = StreamAfterStatus(restore_stdout, sys_stdout)
    /\ console' = console
           \o << Item("no evaluations completed", "", sys_stdout'),
                 Item("footer", "", sys_stdout') >>
    /\ run_pc' = "returned"
    /\ UNCHANGED <<verbose, eval_name, list_evals, evals_to_run, position, old_stdout,
                   all_results, restore_stdout, function_outcomes,
                   outcomes, stream_at_start>>
    /\ UNCHANGED <<callvars, concvars>>

RunnerNext ==
    \/ ListEvaluations
    \/ RejectUnknownEvaluation
    \/ SelectEvaluations
    \/ BeginEvaluation
    \/ EvaluationReturns
    \/ EvaluationRaises
    \/ ReportResults
    \/ ReportNothing

SpecRunner == RunnerInit /\ [][RunnerNext]_vars


\* ================================================================ claims
StringMetrics == {"exact_match", "partial_match", "fashion_similarity"}
Metrics == StringMetrics \cup {"list_overlap_score"}

\* an empty or absent argument: None, "" or []
Absent(x) == x.t = "none" \/ Len(x.v) = 0

\* s.strip().lower()
Normalized(s) == lower(strip(s))

\* equality of two arguments after trimming and lowercasing (item by item
\* for lists)
NormalizedEqual(p, e) ==
    IF p.t = "list"
    THEN /\ e.t = "list"
         /\ [i \in 1 .. Len(p.v) |-> Normalized(p.v[i])]
                = [i \in 1 .. Len(e.v) |-> Normalized(e.v[i])]
    ELSE Normalized(p.v) = Normalized(e.v)

InUnitInterval(q) == RLe(Zero, q) /\ RLe(q, One)

\* C1: for all strings a and b, exact_match(a, b) is 1.0 iff both are
\* non-empty and a.strip().lower() = b.strip().lower(), and 0.0 otherwise.
C1_ExactMatchIffNormalizedEqual ==
    fn = "exact_match" /\ predicted.t = "str" /\ expected.t = "str" =>
        /\ result.exc = "none"
        /\ result.val =
               IF /\ Len(predicted.v) > 0
                  /\ Len(expected.v) > 0
                  /\ Normalized(predicted.v) = Normalized(expected.v)
               THEN One ELSE Zero

\* exact_match returned 1.0 for two strings that differ before normalization
C1_Witness ==
    /\ fn = "exact_match" /\ predicted.t = "str" /\ expected.t = "str"
    /\ result = Return(One)
    /\ predicted.v # expected.v

\* C2: exact_match, partial_match, fashion_similarity and list_overlap_score
\* return exactly 0.0 when either input is empty or absent ("", [] or None),
\* whatever the other input is.
C2_ZeroOnAbsentInput ==
    fn \in Metrics /\ (Absent(predicted) \/ Absent(expected)) =>
        result = Return(Zero)

\* exact_match got "" against a whitespace-only string (equal once trimmed)
\* and returned 0.0
C2_Witness ==
    /\ fn = "exact_match" /\ predicted.t = "str" /\ expected.t = "str"
    /\ Len(predicted.v) = 0
    /\ Len(expected.v) > 0
    /\ Normalized(expected.v) = <<>>
    /\ result = Return(Zero)

\* C3 as stated: whenever one of the four metrics returns 1.0, predicted and
\* expected are equal after trimming whitespace and lowercasing.
C3_OneOnlyOnNormalizedMatch ==
    fn \in Metrics /\ result = Return(One) =>
        NormalizedEqual(predicted, expected)

\* C3 (amended): exact_match and fashion_similarity return 1.0 only when the
\* inputs are equal after trimming and lowercasing; partial_match returns 1.0
\* only when the two lowercase word-token sets are equal, and
\* list_overlap_score only when the two sets of lowercased, trimmed items are
\* equal.
C3_OneOnlyOnEqualNormalForms ==
    fn \in Metrics /\ result = Return(One) =>
        /\ fn \in {"exact_match", "fashion_similarity"} =>
               Normalized(predicted.v) = Normalized(expected.v)
        /\ fn = "partial_match" =>
               findall_words(lower(predicted.v)) = findall_words(lower(expected.v))
        /\ fn = "list_overlap_score" =>
               NormalizedSet(predicted.v) = NormalizedSet(expected.v)

\* partial_match returned 1.0 for strings that are not a normalized match
C3_Witness ==
    /\ fn = "partial_match"
    /\ result = Return(One)
    /\ Normalized(predicted.v) # Normalized(expected.v)

\* C4: exact_match, partial_match, fashion_similarity and list_overlap_score
\* return a value in [0, 1] for all inputs.
C4_MetricsInUnitInterval ==
    fn \in Metrics => result.exc = "none" /\ InUnitInterval(result.val)

\* fashion_similarity returned a token-branch score strictly between 0 and 1
C4_Witness ==
    /\ fn = "fashion_similarity"
    /\ result # Return(<<9, 10>>)
    /\ result.exc = "none"
    /\ RLt(Zero, result.val) /\ RLt(result.val, One)

\* the weight the claim gives a name of scores: its entry in weights, 1.0
\* when weights is absent or has no entry for it
ClaimedWeight(key) ==
    IF weights.t = "dict" /\ key \in DOMAIN weights.v
    THEN weights.v[key] ELSE One

ClaimedTotalWeight ==
    SumOver([key \in DOMAIN scores.v |-> ClaimedWeight(key)], DOMAIN scores.v)

ClaimedWeightedSum ==
    SumOver([key \in DOMAIN scores.v |-> RMul(scores.v[key], ClaimedWeight(key))],
            DOMAIN scores.v)

\* sum(weights.values()), the total weight the guard of line 226 tests
TotalWeight ==
    IF weights.t = "none" THEN <<Cardinality(DOMAIN scores.v), 1>>
    ELSE SumOver(weights.v, DOMAIN weights.v)

\* C5: weighted_score returns sum(score * weight) / sum(weight) over the
\* names present in scores, a name missing from weights weighing 1.0, with
\* the same weights in the numerator and in the denominator.
C5_WeightedMeanOverScoreNames ==
    /\ fn = "weighted_score"
    /\ DOMAIN scores.v # {}
    /\ TotalWeight # Zero
    /\ ClaimedTotalWeight # Zero
    => /\ result.exc = "none"
       /\ RMul(result.val, ClaimedTotalWeight) = ClaimedWeightedSum

\* C6: for scores in [0, 1] and non-negative weights (also weights that omit
\* names of scores or name other things), weighted_score is in [0, 1].
C6_WeightedScoreInUnitInterval ==
    fn = "weighted_score" => result.exc = "none" /\ InUnitInterval(result.val)

\* C7: weighted_score returns 0.0, without a division error, when scores is
\* empty or the total weight is 0 (an explicit empty weights included).
\* (The total weight is read both ways: as the sum the code tests and as the
\* sum of the weights the names of scores get.)
C7_ZeroOnEmptyOrZeroWeight ==
    /\ fn = "weighted_score"
    /\ \/ DOMAIN scores.v = {}
       \/ TotalWeight = Zero
       \/ ClaimedTotalWeight = Zero
    => result = Return(Zero)

\* weighted_score got scores and an explicit empty weights mapping
C7_Witness ==
    /\ fn = "weighted_score"
    /\ DOMAIN scores.v # {}
    /\ weights.t = "dict" /\ DOMAIN weights.v = {}
    /\ result = Return(Zero)

\* C8: for non-empty strings, partial_match is the mean of |P&E| / |P|E| and
\* |P&E| / |E| over the lowercase word-token sets P and E, and 0.0 when E is
\* empty; "red dress" against "red dress blue shoes" gives 0.5.
C8_PartialMatchIsMeanOfJaccardAndRecall ==
    fn = "partial_match" /\ ~Absent(predicted) /\ ~Absent(expected) =>
        LET P == findall_words(lower(predicted.v))
            E == findall_words(lower(expected.v))
            nI == Cardinality(P \cap E)
            nU == Cardinality(P \cup E)
            nE == Cardinality(E)
        IN  /\ result.exc = "none"
            /\ IF E = {} THEN result.val = Zero
               ELSE result.val[1] * (2 * nU * nE) = result.val[2] * (nI * (nE + nU))
            /\ (predicted.v = Chars("red dress")
                    /\ expected.v = Chars("red dress blue shoes"))
                   => result.val = <<1, 2>>

\* the example of the specification has been scored
C8_Witness ==
    /\ fn = "partial_match"
    /\ predicted.v = Chars("red dress")
    /\ expected.v = Chars("red dress blue shoes")
    /\ result = Return(<<1, 2>>)

\* C9: fashion_similarity returns 1.0 whenever its two non-empty inputs are
\* equal after trimming whitespace and lowercasing.
C9_NormalizedMatchIsOne ==
    /\ fn = "fashion_similarity"
    /\ ~Absent(predicted) /\ ~Absent(expected)
    /\ Normalized(predicted.v) = Normalized(expected.v)
    => result = Return(One)

\* C10: when the non-empty inputs differ case-insensitively but one
\* lowercased string is a substring of the other, fashion_similarity returns
\* exactly 0.9, whatever the token overlap and the synonym table say.
C10_SubstringIsNineTenths ==
    /\ fn = "fashion_similarity"
    /\ ~Absent(predicted) /\ ~Absent(expected)
    /\ lower(predicted.v) # lower(expected.v)
    /\ \/ Contains(lower(expected.v), lower(predicted.v))
       \/ Contains(lower(predicted.v), lower(expected.v))
    => result = Return(<<9, 10>>)

\* predicted is a proper substring of expected, the two share no token, and
\* the call returned 0.9
C10_Witness ==
    /\ fn = "fashion_similarity"
    /\ ~Absent(predicted) /\ ~Absent(expected)
    /\ Len(predicted.v) < Len(expected.v)
    /\ Contains(lower(predicted.v), lower(expected.v))
    /\ findall_words(lower(predicted.v)) \cap findall_words(lower(expected.v)) = {}
    /\ findall_words(lower(predicted.v)) # {}
    /\ findall_words(lower(expected.v)) # {}
    /\ result = Return(<<9, 10>>)

\* ------------------------------------------------- claims C11 .. C20
\* the call of fashion_similarity in this state reached the token branch
InTokenBranch ==
    /\ fn = "fashion_similarity"
    /\ ~Absent(predicted) /\ ~Absent(expected)
    /\ lower(predicted.v) # lower(expected.v)
    /\ ~Contains(lower(expected.v), lower(predicted.v))
    /\ ~Contains(lower(predicted.v), lower(expected.v))

PredictedWords == findall_words(lower(predicted.v))
ExpectedWords == findall_words(lower(expected.v))

\* C11: outside the exact-match and substring branches, fashion_similarity is
\* min(0.7 * base_score + 0.3 * synonym_score, 1.0), base_score being
\* |P&E| / |E| (0 for an empty E) and synonym_score the number of
\* synonym-matched expected tokens over |E|.
C11_TokenBranchFormula ==
    InTokenBranch =>
        LET nE == Cardinality(ExpectedWords)
            matched == {w \in ExpectedWords :
                           SynonymMatch(w, PredictedWords, lower(predicted.v))}
            base_score == IF nE = 0 THEN Zero
                          ELSE Rat(Cardinality(PredictedWords \cap ExpectedWords), nE)
            synonym_score == IF nE = 0 THEN Zero ELSE Rat(Cardinality(matched), nE)
        IN  result = Return(RMin(RAdd(RMul(<<7, 10>>, base_score),
                                      RMul(<<3, 10>>, synonym_score)), One))

\* "high-end style" against "luxury style": one direct and one synonym match
C11_Witness ==
    /\ InTokenBranch
    /\ predicted.v = Chars("high-end style")
    /\ expected.v = Chars("luxury style")
    /\ result = Return(<<1, 2>>)

\* C12: for two non-empty lists, list_overlap_score is 2pr / (p + r) with
\* p = |P&E| / |P| and r = |P&E| / |E| over the sets of lowercased, trimmed
\* items, and 0.0 when p + r = 0; ["Zara","Nike"] against ["nike","h&m"]
\* gives 0.5.
C12_ListOverlapIsF1 ==
    fn = "list_overlap_score" /\ ~Absent(predicted) /\ ~Absent(expected) =>
        LET P == {lower(strip(predicted.v[i])) : i \in 1 .. Len(predicted.v)}
            E == {lower(strip(expected.v[i])) : i \in 1 .. Len(expected.v)}
            p == Rat(Cardinality(P \cap E), Cardinality(P))
            r == Rat(Cardinality(P \cap E), Cardinality(E))
        IN  /\ result.exc = "none"
            /\ IF RAdd(p, r) = Zero THEN result.val = Zero
               ELSE RMul(result.val, RAdd(p, r)) = RMul(<<2, 1>>, RMul(p, r))
            /\ (predicted.v = <<Chars("Zara"), Chars("Nike")>>
                    /\ expected.v = <<Chars("nike"), Chars("h&m")>>)
                   => result.val = <<1, 2>>

\* the example of the specification has been scored
C12_Witness ==
    /\ fn = "list_overlap_score"
    /\ predicted = PyList(<<Chars("Zara"), Chars("Nike")>>)
    /\ expected = PyList(<<Chars("nike"), Chars("h&m")>>)
    /\ result = Return(<<1, 2>>)

\* the score of a record, 0 when the field is missing
ScoreOf(r) == IF "score" \in DOMAIN r THEN r.score ELSE Zero

\* C13: for a non-empty sequence of records, calculate_accuracy returns
\* total = the number of records, passed = the number of records whose score
\* (0 when missing) is >= threshold, accuracy = passed / total and
\* avg_score = sum of scores / total.
C13_AccuracyOfRecords ==
    fn = "calculate_accuracy" /\ ~Absent(results) =>
        LET n == Len(results.v)
            passing == {i \in 1 .. n : RLe(threshold, ScoreOf(results.v[i]))}
            sum == SumSeq([i \in 1 .. n |-> ScoreOf(results.v[i])])
        IN  /\ result.exc = "none"
            /\ result.val.total = n
            /\ result.val.passed = Cardinality(passing)
            /\ result.val.accuracy = Rat(Cardinality(passing), n)
            /\ result.val.avg_score = Rat(sum[1], sum[2] * n)

\* [{score: 0.9}, {score: 0.5}] at threshold 0.7: total 2, passed 1,
\* accuracy 0.5, avg_score 0.7
C13_Witness ==
    /\ fn = "calculate_accuracy"
    /\ results = PyList(<<[id |-> "x", score |-> <<9, 10>>],
                          [id |-> "x", score |-> <<1, 2>>]>>)
    /\ threshold = <<7, 10>>
    /\ result = Return(Metrics4(2, 1, <<1, 2>>, <<7, 10>>))

\* C14: for an empty input sequence calculate_accuracy returns
\* {total: 0, passed: 0, accuracy: 0.0, avg_score: 0.0} for every threshold,
\* without a division by zero.
C14_AllZeroOnEmptyResults ==
    fn = "calculate_accuracy" /\ Absent(results) =>
        result = Return(Metrics4(0, 0, Zero, Zero))

\* calculate_accuracy got [] and a threshold other than the default
C14_Witness ==
    /\ fn = "calculate_accuracy"
    /\ results = PyList(<<>>)
    /\ threshold = <<3, 5>>
    /\ result = Return(Metrics4(0, 0, Zero, Zero))

\* C15: no function of the scoring library raises on inputs of the documented
\* types, empty and absent values and a zero total weight included.
C15_NoCallRaises ==
    fn # "none" => result.exc = "none"

\* partial_match returned on a non-empty expected string without any word
C15_Witness ==
    /\ fn = "partial_match"
    /\ ~Absent(predicted) /\ ~Absent(expected)
    /\ ExpectedWords = {}
    /\ PredictedWords # {}
    /\ result = Return(Zero)

Reverse(seq) == [i \in 1 .. Len(seq) |-> seq[Len(seq) + 1 - i]]
Rotate(seq, k) == [i \in 1 .. Len(seq) |-> seq[((i - 1 + k) % Len(seq)) + 1]]

\* other orders in which the synonym groups could be visited: each rotation
\* of the table and its reversal
GroupOrders ==
    {Rotate(fashion_synonyms, k) : k \in 0 .. Len(fashion_synonyms) - 1}
        \cup {Reverse(fashion_synonyms)}

\* C16: a call's result is a function of its inputs alone: whatever order the
\* expected tokens are iterated in, fashion_similarity returns the same value,
\* and visiting the synonym groups in another order does not change whether a
\* token is synonym-matched.
C16_ResultIndependentOfIterationOrder ==
    fn = "fashion_similarity" =>
        /\ \A o \in WordOrders(predicted, expected) :
               fashion_similarity(predicted, expected, o) = result
        /\ InTokenBranch =>
               \A w \in ExpectedWords : \A groups \in GroupOrders :
                   GroupLoop(w, lower(predicted.v), groups)
                       = GroupLoop(w, lower(predicted.v), fashion_synonyms)

\* the loop visited a directly matched token before a synonym-matched one
C16_Witness ==
    /\ InTokenBranch
    /\ Len(word_order) = 2
    /\ word_order[1] \in PredictedWords
    /\ SynonymMatch(word_order[2], PredictedWords, lower(predicted.v))
    /\ result = Return(<<1, 2>>)

ClaimedSynonymMatch(w) ==
    /\ w \notin PredictedWords
    /\ \E n \in 1 .. Len(fashion_synonyms) :
        LET key == fashion_synonyms[n].key
            listed == {fashion_synonyms[n].synonyms[i] :
                          i \in 1 .. Len(fashion_synonyms[n].synonyms)}
        IN  /\ w = key \/ w \in listed
            /\ \E phrase \in {key} \cup listed : Contains(phrase, lower(predicted.v))

\* C19: in the token branch an expected token that is not a predicted token
\* counts as a synonym match exactly when it is the key or a listed synonym
\* of a group of which the key or a synonym phrase is a substring of the
\* lowercased predicted text ("casual" inside "casualty" counts); each
\* expected token counts at most once.
C19_SynonymMatchBySubstring ==
    InTokenBranch /\ ExpectedWords # {} =>
        LET nE == Cardinality(ExpectedWords)
            direct == Cardinality(PredictedWords \cap ExpectedWords)
            counted == Cardinality({w \in ExpectedWords : ClaimedSynonymMatch(w)})
        IN  /\ result.exc = "none"
            /\ result.val = Rat(7 * direct + 3 * counted, 10 * nE)
            /\ (predicted.v = Chars("casualty") /\ expected.v = Chars("relaxed"))
                   => result.val = <<3, 10>>

\* "relaxed" was matched through "casual" inside "casualty"
C19_Witness ==
    /\ InTokenBranch
    /\ predicted.v = Chars("casualty")
    /\ expected.v = Chars("relaxed")
    /\ result = Return(<<3, 10>>)

\* every key and synonym of the table
GroupWords == UNION {GroupTerms(fashion_synonyms[n]) : n \in 1 .. Len(fashion_synonyms)}

\* the tokens of the hyphenated synonym phrases
Fragments ==
    UNION {findall_words(t) : t \in {u \in GroupWords : \E i \in 1 .. Len(u) : u[i] = "-"}}

\* the score of the token branch when no synonym match is counted
BaseOnly ==
    Rat(7 * Cardinality(PredictedWords \cap ExpectedWords), 10 * Cardinality(ExpectedWords))

LuxuryExample ==
    (fn = "fashion_similarity"
        /\ predicted.v = Chars("luxury style")
        /\ expected.v = Chars("high-end style"))
    => result = Return(<<7, 30>>)

\* C20 as stated: expected tokens that are fragments of a hyphenated synonym
\* phrase never produce a synonym match, and fashion_similarity("luxury
\* style", "high-end style") returns 0.7 * 1/3.
C20_FragmentsNeverMatch ==
    /\ LuxuryExample
    /\ (InTokenBranch
            /\ ExpectedWords \ PredictedWords # {}
            /\ ExpectedWords \ PredictedWords \subseteq Fragments)
       => result = Return(BaseOnly)

\* C20 (amended): expected tokens that are fragments of a hyphenated synonym
\* phrase and are not themselves a key or a synonym of a group never produce
\* a synonym match ("casual", a fragment of "casual-cool", is the key of a
\* group and does); fashion_similarity("luxury style", "high-end style")
\* returns 0.7 * 1/3.
C20_FragmentsOutsideGroupsNeverMatch ==
    /\ LuxuryExample
    /\ (InTokenBranch
            /\ ExpectedWords \ PredictedWords # {}
            /\ ExpectedWords \ PredictedWords \subseteq Fragments \ GroupWords)
       => result = Return(BaseOnly)

\* the example has been scored: "high" and "end" matched nothing
C20_Witness ==
    /\ InTokenBranch
    /\ predicted.v = Chars("luxury style")
    /\ expected.v = Chars("high-end style")
    /\ {Chars("high"), Chars("end")} \subseteq Fragments \ GroupWords
    /\ result = Return(<<7, 30>>)

\* C18: scoring functions called concurrently need no coordination: under
\* every interleaving of their steps each call returns what it returns when
\* it runs alone.
C18_InterleavedCallsReturnAsAlone ==
    \A c \in Callers :
        pc[c] = "done" =>
            \A o \in WordOrders(frame[c].predicted, frame[c].expected) :
                frame[c].result = fashion_similarity(frame[c].predicted, frame[c].expected, o)

\* two calls that both counted a synonym match ran while the other was in
\* progress, and both have returned
C18_Witness ==
    /\ \A c \in Callers : pc[c] = "done" /\ frame[c].overlapped
    /\ frame[1].predicted.v = Chars("high-end style")
    /\ frame[1].expected.v = Chars("luxury style")
    /\ frame[1].result = Return(<<1, 2>>)
    /\ frame[2].predicted.v = Chars("casualty")
    /\ frame[2].expected.v = Chars("relaxed")
    /\ frame[2].result = Return(<<3, 10>>)

\* ------------------------------------------------- claims C21 .. C30
\* the words appended to predicted
ExtraWords ==
    { Chars(""), Chars("a"), Chars("-"), Chars("red dress"), Chars("casual"),
      Chars("high-end style") }

\* predicted + " " + x
Appended(x) == PyStr(predicted.v \o Chars(" ") \o x)

\* C21: fashion_similarity has no penalty for predicted tokens unrelated to
\* the expected answer: for p and e that reach the token branch,
\* fashion_similarity(p + " " + x, e) >= fashion_similarity(p, e).
C21_AppendingNeverLowers ==
    InTokenBranch =>
        \A x \in ExtraWords :
            \* expected is the same in both calls, and so are its iteration orders
            LET longer == fashion_similarity(Appended(x), expected, word_order)
            IN  /\ result.exc = "none"
                /\ longer.exc = "none"
                /\ RLe(result.val, longer.val)

\* "premium look" scored 0 against "Dress, red"; with " red dress" appended,
\* still in the token branch, it scores 0.7
C21_Witness ==
    /\ InTokenBranch
    /\ predicted.v = Chars("premium look")
    /\ expected.v = Chars("Dress, red")
    /\ result = Return(Zero)
    /\ ~Contains(lower(expected.v), lower(Appended(Chars("red dress")).v))
    /\ fashion_similarity(Appended(Chars("red dress")), expected, word_order)
           = Return(<<7, 10>>)

\* C22: partial_match(p, e) equals partial_match(e, p) exactly when the two
\* token sets have the same size or share no token: the Jaccard term is
\* symmetric, the recall term divides by the expected argument's token count.
C22_SwapEqualIffSameSizeOrDisjoint ==
    (fn = "partial_match" /\ ~Absent(predicted) /\ ~Absent(expected)) =>
        LET P == findall_words(lower(predicted.v))
            E == findall_words(lower(expected.v))
        IN  (result = partial_match(expected, predicted, threshold))
                <=> (Cardinality(P) = Cardinality(E) \/ P \cap E = {})

\* "red dress" against "red dress blue shoes" scored 1/2, the swapped call 3/4
C22_Witness ==
    /\ fn = "partial_match"
    /\ predicted = PyStr(Chars("red dress"))
    /\ expected = PyStr(Chars("red dress blue shoes"))
    /\ result = Return(<<1, 2>>)
    /\ partial_match(expected, predicted, threshold) = Return(<<3, 4>>)

\* the functions that score one example
ScoreFunctions ==
    {"calculate_affiliate_score", "calculate_hashtag_score", "calculate_extraction_score",
     "evaluate_writing_quality", "trend_score", "style_score"}

\* the functions that evaluate a dataset
EvaluateFunctions ==
    {"evaluate_trend_detection", "evaluate_product_extraction",
     "evaluate_style_classification", "evaluate_fashion_writing",
     "evaluate_hashtag_understanding", "evaluate_affiliate_detection"}

\* C23: every per-example score an evaluator hands to the reporting layer is
\* in [0, 1]: calculate_affiliate_score, calculate_hashtag_score,
\* calculate_extraction_score, evaluate_writing_quality, the trend
\* evaluator's mean of partial_match and fashion_similarity and the style
\* evaluator's maximum of exact_match and fashion_similarity never return a
\* value below 0 or above 1.
C23_EvaluatorScoresInUnitInterval ==
    /\ (fn \in ScoreFunctions /\ result.exc = "none") => InUnitInterval(result.val)
    /\ (fn \in EvaluateFunctions /\ result.exc = "none") =>
           \A i \in 1 .. Len(result.val.results) :
               InUnitInterval(result.val.results[i].score)

\* a caption scored against itself: all four parts of evaluate_writing_quality
\* are earned and the score is 1.0
C23_Witness ==
    /\ fn = "evaluate_writing_quality"
    /\ predicted = expected
    /\ Len(predicted.v) > 50
    /\ result = Return(One)

\* C24: outside the exact-match and substring branches fashion_similarity
\* never returns more than 0.7: the directly matched and the synonym-matched
\* expected tokens are disjoint, so base_score + synonym_score <= 1, the
\* min(..., 1.0) never changes the value, and no result lies strictly
\* between 0.7 and 0.9.
C24_TokenBranchAtMostSevenTenths ==
    /\ InTokenBranch =>
        LET nE == Cardinality(ExpectedWords)
            direct == PredictedWords \cap ExpectedWords
            matched == {w \in ExpectedWords :
                           SynonymMatch(w, PredictedWords, lower(predicted.v))}
            counted == SynonymLoop(word_order, PredictedWords, lower(predicted.v), 0)
        IN  /\ result.exc = "none"
            /\ RLe(result.val, <<7, 10>>)
            /\ Cardinality(direct) + counted <= nE
            /\ direct \cap matched = {}
            /\ nE > 0 => result.val = Rat(7 * Cardinality(direct) + 3 * counted, 10 * nE)
    /\ fn = "fashion_similarity" =>
        ~(RLt(<<7, 10>>, result.val) /\ RLt(result.val, <<9, 10>>))

\* both tokens of "retro, relaxed" are in "Relaxed fit, retro dress", and
\* both are in a synonym group of which a term is in the predicted text
C24_Witness ==
    /\ InTokenBranch
    /\ predicted.v = Chars("Relaxed fit, retro dress")
    /\ expected.v = Chars("retro, relaxed")
    /\ \A w \in ExpectedWords : GroupLoop(w, lower(predicted.v), fashion_synonyms)
    /\ result = Return(<<7, 10>>)

\* C25: partial_match returns 1.0 if and only if both strings are non-empty
\* and their lowercase word-token sets are equal and non-empty, whatever the
\* word order, repetition, punctuation or whitespace.
C25_PartialMatchOneIffEqualTokenSets ==
    fn = "partial_match" =>
        ((result = Return(One))
            <=> (/\ Truthy(predicted) /\ Truthy(expected)
                 /\ findall_words(lower(predicted.v)) = findall_words(lower(expected.v))
                 /\ findall_words(lower(expected.v)) # {}))

\* "red dress" against "Dress, red": other order, case and punctuation
C25_Witness ==
    /\ fn = "partial_match"
    /\ predicted = PyStr(Chars("red dress"))
    /\ expected = PyStr(Chars("Dress, red"))
    /\ lower(predicted.v) # lower(expected.v)
    /\ result = Return(One)

\* C26: scoring the affiliate heuristic's own output never fails: for every
\* post text and every expected record with string-valued platform, type
\* and code, calculate_affiliate_score(detect_affiliate_content(text),
\* expected) returns a number and does not raise, also when the
\* brand-partnership step assigns type while has_affiliate is still false.
C26_ScoringOwnOutputNeverRaises ==
    /\ fn = "detect_affiliate_content" =>
           \A e \in AffiliateExpected :
               calculate_affiliate_score(result.val, e).exc = "none"
    /\ fn = "evaluate_affiliate_detection" => result.exc = "none"

\* C27: in every result of detect_affiliate_content a type of "organic"
\* implies that has_affiliate is False: the link-mention step never turns a
\* post labelled organic into an affiliate post.
C27_OrganicImpliesNotAffiliate ==
    fn = "detect_affiliate_content" =>
        LET detected == result.val.v
        IN  ("type" \in DOMAIN detected /\ detected["type"] = PyStr(Chars("organic")))
                => ~detected["has_affiliate"].v

\* console.print wrote an item with this text
Wrote(text) == \E i \in 1 .. Len(console) : console[i].text = text

\* the calls of the history that raised
Failures == {i \in 1 .. Len(outcomes) : outcomes[i].outcome.exc # "none"}

\* C28: in non-verbose mode the runner's redirection of sys.stdout is always
\* undone: after each evaluation function returns or raises an Exception,
\* sys.stdout is again the stream that was installed before that evaluation
\* started, so when run finishes sys.stdout is the original stream and the
\* results table is printed to it.
C28_RedirectionAlwaysUndone ==
    ~verbose =>
        /\ (run_pc = "loop" /\ outcomes # <<>>) => sys_stdout = stream_at_start
        /\ (run_pc = "returned" /\ ~list_evals) =>
               /\ sys_stdout = OriginalStream
               /\ \A i \in 1 .. Len(console) :
                      console[i].text = "table" => console[i].file = OriginalStream

\* a non-verbose run of the full suite under a status display that had put
\* its proxy in place of sys.stdout: some evaluations raised, some returned,
\* and the table went to the original stream
C28_Witness ==
    /\ ~verbose
    /\ run_pc = "returned"
    /\ restore_stdout = OriginalStream
    /\ old_stdout = ProxyStream
    /\ Len(outcomes) = Len(EVALUATIONS)
    /\ Failures # {}
    /\ outcomes[Len(outcomes)].outcome.exc = "AttributeError"
    /\ sys_stdout = OriginalStream
    /\ \E i \in 1 .. Len(console) :
           console[i].text = "table" /\ console[i].file = OriginalStream

\* the keys of the evaluations called so far
AttemptedKeys == [i \in 1 .. Len(outcomes) |-> outcomes[i].key]

\* the results of the calls that returned, in the order of the calls
RECURSIVE ReturnedResults(_)
ReturnedResults(history) ==
    IF history = <<>> THEN <<>>
    ELSE IF Head(history).outcome.exc = "none"
         THEN <<Head(history).outcome.val>> \o ReturnedResults(Tail(history))
         ELSE ReturnedResults(Tail(history))

\* the keys are in the order in which EVALUATIONS has them, none twice
InEvaluationsOrder(keys) ==
    \A i, j \in 1 .. Len(keys) : i < j => IndexOf(keys[i]) < IndexOf(keys[j])

\* C29: a failing evaluation does not stop the run: every evaluation
\* selected for the run is attempted exactly once, in the order of
\* EVALUATIONS, whether or not earlier ones raised; all_results ends up
\* holding exactly the results of the evaluations that returned, in that
\* order; the results table and the grade are printed if and only if at
\* least one evaluation returned.
C29_FailureDoesNotStopTheRun ==
    /\ run_pc \in {"loop", "evaluating"} =>
           /\ AttemptedKeys = SubSeq(evals_to_run, 1, position - 1)
           /\ all_results = ReturnedResults(outcomes)
    /\ (run_pc = "returned" /\ ~list_evals) =>
           /\ AttemptedKeys = evals_to_run
           /\ InEvaluationsOrder(evals_to_run)
           /\ all_results = ReturnedResults(outcomes)
           /\ Wrote("table") <=> Failures # 1 .. Len(outcomes)
           /\ Wrote("summary") <=> Failures # 1 .. Len(outcomes)
           /\ Wrote("no evaluations completed") <=> Failures = 1 .. Len(outcomes)

\* a run of the full suite in which the first evaluation raised and the
\* last one raised, the four between them returned, and the table and the
\* grade were written
C29_Witness ==
    /\ run_pc = "returned"
    /\ evals_to_run = EvaluationKeys
    /\ Len(outcomes) = Len(EVALUATIONS)
    /\ Failures = {1, Len(EVALUATIONS)}
    /\ Len(all_results) = Len(EVALUATIONS) - 2
    /\ all_results[1].eval_name = "Product Extraction"
    /\ Wrote("table") /\ Wrote("summary")

\* the threshold C30 names for each evaluator
ClaimedThreshold(evaluate) ==
    IF evaluate = "evaluate_fashion_writing" THEN <<3, 5>> ELSE <<7, 10>>

\* C30: the aggregates each evaluator computes inline agree with
\* calculate_accuracy on the same result records: total_examples, passed and
\* avg_score equal the total, passed and avg_score of
\* calculate_accuracy(results, threshold), the threshold being 0.7 for the
\* trend, product, style, hashtag and affiliate evaluators and 0.6 for the
\* writing evaluator; passed never exceeds total_examples.
C30_AggregatesAgreeWithCalculateAccuracy ==
    (fn \in EvaluateFunctions /\ result.exc = "none") =>
        LET accuracy == calculate_accuracy(PyList(result.val.results), ClaimedThreshold(fn))
        IN  /\ accuracy.exc = "none"
            /\ result.val.total_examples = accuracy.val.total
            /\ result.val.passed = accuracy.val.passed
            /\ result.val.avg_score = accuracy.val.avg_score
            /\ result.val.passed <= result.val.total_examples

\* the writing evaluator passed one of two captions, with a score between
\* 0.6 and 0.7
C30_Witness ==
    /\ fn = "evaluate_fashion_writing"
    /\ result.exc = "none"
    /\ result.val.total_examples = 2
    /\ result.val.passed = 1
    /\ \E i \in 1 .. 2 :
           /\ RLe(<<3, 5>>, result.val.results[i].score)
           /\ RLt(result.val.results[i].score, <<7, 10>>)

====
